---- MODULE Spec2Model ----
(***************************************************************************)
(* A model of the gmx_flow library: the GmxFlow flow-field object, the     *)
(* GMX_FLOW_1 / GMX_FLOW_2 file reader and writer and the format           *)
(* converter.                                                              *)
(*                                                                         *)
(* Numbers.  Python floats are modelled by integers on fixed scales:       *)
(*   - field values N, T, M, U, V, flow count half units-in-the-last-place *)
(*     of a float32, so that an odd value is a float64 which is not a      *)
(*     float32 and F32 rounds it (ties to even), and 1 underflows to 0;    *)
(*   - lengths (origin, spacing) count half units of the sixth decimal,    *)
(*     so that "{:12f}" rounds an odd length;                              *)
(*   - bin coordinates X, Y are stored doubled, which makes the half-bin   *)
(*     offset dx * (ix + 0.5) the integer dx * (2 ix + 1).                 *)
(* Objects and numpy buffers live on two heaps, objs and arrs, so that a   *)
(* view (two references to one buffer) differs from a copy.                *)
(***************************************************************************)
EXTENDS Integers, Sequences, FiniteSets, TLC

VARIABLES
    objs,     \* heap of GmxFlow objects: object id -> GmxFlow record or None
    arrs,     \* heap of numpy buffers: buffer id -> array record or None
    files,    \* the file system: path -> file record or NoFile
    result,   \* object id returned by the last read_flow / convert call, 0 = none
    err,      \* exception raised by the last call, "" = none
    last,     \* the last call: [op, path, arg]
    made      \* the array and attributes object 1 was constructed with

vars == <<objs, arrs, files, result, err, last, made>>

-----------------------------------------------------------------------------
(* Bounds of the model *)

\* largest number of bins nx * ny of a grid
MaxBins == 3

\* largest system width passed to the converter
MaxWidth == 2

\* largest number of bins of a grid that is narrowed with limits on record
MaxLimBins == 4

\* largest number of flow fields in a list that is averaged
MaxFlows == 2

-----------------------------------------------------------------------------
(* Generic helpers *)

None == [none |-> TRUE]

Range(s) == {s[i] : i \in DOMAIN s}

Min(S) == CHOOSE x \in S : \A y \in S : x <= y

Max(S) == CHOOSE x \in S : \A y \in S : x >= y

\* a / b rounded to the nearest integer, ties to even (IEEE, Python round, np.round)
RoundDiv(a, b) ==
    LET q == a \div b
        r == a % b
    IN  IF 2 * r < b THEN q
        ELSE IF 2 * r > b THEN q + 1
        ELSE IF q % 2 = 0 THEN q ELSE q + 1

\* floor of the square root
Isqrt(n) == CHOOSE r \in 0..n : r * r <= n /\ (r + 1) * (r + 1) > n

\* the subsequence of s at the positions where keep is TRUE (numpy boolean mask)
Mask(s, keep) ==
    LET F[i \in 0..Len(s)] ==
            IF i = 0 THEN <<>>
            ELSE IF keep[i] THEN Append(F[i - 1], s[i]) ELSE F[i - 1]
    IN  F[Len(s)]

\* the element of a one-element set; The({ e(x) : x \in {v} }) is e with x
\* bound to the value v, computed once
The(S) == CHOOSE v \in S : TRUE

Prod(shape) ==
    IF Len(shape) = 1 THEN shape[1] ELSE shape[1] * shape[2]

-----------------------------------------------------------------------------
(* src/src/gmx_flow/flow/gmxflow.py *)

V1 == "GMX_FLOW_1"
V2 == "GMX_FLOW_2"

\* GmxFlowVersion.as_header
as_header(version) == IF version = V1 THEN "GMX_FLOW_1" ELSE "GMX_FLOW_2"

get_units_dict(version) == IF version = V2 THEN "u/nm^3" ELSE "u"

get_descriptions_dict(version) == IF version = V2 THEN "Mass density" ELSE "Total mass"

\* A numpy record array: dtype names, shape and the cells in row-major order;
\* each cell is a function from the dtype names to values.
Array(names, shape, cells) == [names |-> names, shape |-> shape, cells |-> cells]

\* GmxFlow._add_flow_magnitude: the array with flow = sqrt(U^2 + V^2) added
\* when U and V both exist, the array itself otherwise
add_flow_magnitude(a) ==
    IF {"U", "V"} \subseteq a.names
    THEN LET names == a.names \cup {"flow"}
         IN  Array(names, a.shape,
                   [i \in DOMAIN a.cells |->
                       [l \in names |->
                           IF l = "flow"
                           THEN Isqrt(a.cells[i]["U"] * a.cells[i]["U"]
                                      + a.cells[i]["V"] * a.cells[i]["V"])
                           ELSE a.cells[i][l]]])
    ELSE a

\* GmxFlow._update_box_size
update_box_size(spacing, shape) == <<spacing[1] * shape[1], spacing[2] * shape[2]>>

\* _calc_shape_from_data.calc_along_axis; coordinates are stored doubled
calc_along_axis(values, diff) ==
    RoundDiv(Max(values) - Min(values), 2 * diff) + 1

\* _calc_shape_from_data
calc_shape_from_data(cells, spacing) ==
    <<calc_along_axis({cells[i]["X"] : i \in DOMAIN cells}, spacing[1]),
      calc_along_axis({cells[i]["Y"] : i \in DOMAIN cells}, spacing[2])>>

\* The heap slots of object o: its _backup_data buffer, and the buffer of a
\* live view that is a copy (after a boolean mask or np.resize).
ObjIds == 1..3
BackupSlot(o) == 2 * o - 1
DataSlot(o) == 2 * o
ArrIds == 1..6

Heap(os, as, e) == [objs |-> os, arrs |-> as, err |-> e]

\* a reset that restores the data and leaves the shape of the narrowed view
reset_view_keeps_shape(H, o) ==
    Heap([H.objs EXCEPT ![o].data = H.objs[o].backup,
                        ![o].x = "data",
                        ![o].box_size = update_box_size(H.objs[o].spacing,
                                                        H.objs[o].shape)],
         [H.arrs EXCEPT ![DataSlot(o)] = None], "")

\* GmxFlow.reset_view: data is the view _backup_data[:, :] of the backing
\* grid, shape its shape; the accessors and box_size follow.  A view that was
\* a copy is dropped.
reset_view(H, o) ==
    LET g == H.objs[o]
        b == H.arrs[g.backup]
    IN  IF ~ ({"X", "Y"} \subseteq b.names)
        THEN Heap([H.objs EXCEPT ![o].data = g.backup, ![o].shape = b.shape],
                  [H.arrs EXCEPT ![DataSlot(o)] = None], "ValueError")
        ELSE Heap([H.objs EXCEPT ![o].data = g.backup,
                                 ![o].shape = b.shape,
                                 ![o].x = "data",
                                 ![o].box_size = update_box_size(g.spacing, b.shape)],
                  [H.arrs EXCEPT ![DataSlot(o)] = None], "")

\* GmxFlow.__init__ / __post_init__ of object o from a user array a
post_init(H, o, a, shape, spacing, version, origin) ==
    IF Len(a.cells) # Prod(shape)
    THEN Heap(H.objs, H.arrs, "ValueError")
    ELSE LET b == add_flow_magnitude(Array(a.names, shape, a.cells))
             g == [data |-> BackupSlot(o), backup |-> BackupSlot(o),
                   shape |-> shape, spacing |-> spacing, origin |-> origin,
                   box_size |-> <<0, 0>>, version |-> version,
                   fields |-> b.names,
                   units |-> get_units_dict(version),
                   descriptions |-> get_descriptions_dict(version),
                   x |-> "unset"]
         IN  The({ IF H2.err # "" THEN Heap(H.objs, H.arrs, H2.err) ELSE H2 :
                   H2 \in { reset_view(H1, o) :
                            H1 \in {Heap([H.objs EXCEPT ![o] = g],
                                         [H.arrs EXCEPT ![BackupSlot(o)] = b,
                                                        ![DataSlot(o)] = None], "")} } })

\* GmxFlow._update_shape: the shape from the extent of the live bins; the
\* data is resized to it (a new array) when the sizes agree.  min() of an
\* empty array raises ValueError.
update_shape(H, o) ==
    LET g == H.objs[o]
        d == H.arrs[g.data]
    IN  IF Len(d.cells) = 0 THEN Heap(H.objs, H.arrs, "ValueError")
        ELSE LET shape == calc_shape_from_data(d.cells, g.spacing)
                 resized == Len(d.cells) = Prod(shape)
             IN  Heap([H.objs EXCEPT
                          ![o].shape = shape,
                          ![o].data = IF resized THEN DataSlot(o) ELSE g.data,
                          ![o].x = "data",
                          ![o].box_size = update_box_size(g.spacing, shape)],
                      IF resized
                      THEN [H.arrs EXCEPT ![DataSlot(o)] = Array(d.names, shape, d.cells)]
                      ELSE H.arrs,
                      "")

\* An optional limit: None in Python is "no bound"
NoLimit == [inf |-> TRUE, v |-> 0]
Limit(v) == [inf |-> FALSE, v |-> v]

\* limits that leave out the bins on the bounds
in_limits_exclusive(v, cmin, cmax) ==
    (cmin.inf \/ v > cmin.v) /\ (cmax.inf \/ v < cmax.v)

\* (data[label] >= cmin) & (data[label] <= cmax) for one bin
in_limits(v, cmin, cmax) ==
    (cmin.inf \/ v >= cmin.v) /\ (cmax.inf \/ v <= cmax.v)

\* GmxFlow.set_clim: keep the bins with cmin <= data[label] <= cmax; the
\* masked data is a new 1D array
set_clim(H, o, cmin, cmax, label) ==
    LET g == H.objs[o]
        d == H.arrs[g.data]
    IN  IF label \notin d.names THEN Heap(H.objs, H.arrs, "ValueError")
        ELSE LET mask == [i \in DOMAIN d.cells |->
                             in_limits(d.cells[i][label], cmin, cmax)]
                 kept == Mask(d.cells, mask)
             IN  The({ update_shape(H1, o) :
                       H1 \in {Heap([H.objs EXCEPT ![o].data = DataSlot(o),
                                                   ![o].x = "stale"],
                                    [H.arrs EXCEPT ![DataSlot(o)] =
                                                       Array(d.names, <<Len(kept)>>, kept)],
                                    "")} })

\* GmxFlow.set_xlim: set_clim on the X label, then _update_shape
set_xlim(H, o, xmin, xmax) ==
    The({ IF H1.err # "" THEN H1 ELSE update_shape(H1, o) :
          H1 \in {set_clim(H, o, xmin, xmax, "X")} })

\* the mutant of set_ylim: the limits are applied to the full grid, not to
\* the live view
set_ylim_of_full_grid(H, o, ymin, ymax) ==
    The({ IF H1.err # "" THEN H1 ELSE update_shape(H1, o) :
          H1 \in {set_clim(reset_view(H, o), o, ymin, ymax, "Y")} })

\* GmxFlow.set_ylim: set_clim on the Y label, then _update_shape
set_ylim(H, o, ymin, ymax) ==
    The({ IF H1.err # "" THEN H1 ELSE update_shape(H1, o) :
          H1 \in {set_clim(H, o, ymin, ymax, "Y")} })

\* a copy whose arrays are those of the original (copy.copy for deepcopy)
copy_shallow(H, o, c) ==
    Heap([H.objs EXCEPT ![c] = H.objs[o]], H.arrs, "")

\* a deep copy whose view is not reset: its data is an array of its own
copy_without_reset(H, o, c) ==
    Heap([H.objs EXCEPT ![c] = [H.objs[o] EXCEPT !.data = DataSlot(c),
                                                 !.backup = BackupSlot(c)]],
         [H.arrs EXCEPT ![BackupSlot(c)] = H.arrs[H.objs[o].backup],
                        ![DataSlot(c)] = H.arrs[H.objs[o].data]],
         "")

\* GmxFlow.copy: deepcopy gives object c its own copies of every array, then
\* reset_view makes its data a view of its own backing grid
copy(H, o, c) ==
    LET g == H.objs[o]
    IN  The({ reset_view(H1, c) :
              H1 \in {Heap([H.objs EXCEPT ![c] = [g EXCEPT !.data = DataSlot(c),
                                                           !.backup = BackupSlot(c)]],
                           [H.arrs EXCEPT ![BackupSlot(c)] = H.arrs[g.backup],
                                          ![DataSlot(c)] = H.arrs[g.data]],
                           "")} })

-----------------------------------------------------------------------------
(* src/src/gmx_flow/flow/io/output.py, input.py, utils.py *)

\* __FIELDS, __DATA_FIELDS, __FIELDS_ORDERED
FIELDS == <<"X", "Y", "N", "T", "M", "U", "V">>
DATA_FIELDS == <<"N", "T", "M", "U", "V">>

\* a writing order that puts the mass first
FIELDS_ORDERED_mass_first == <<"M", "N", "T", "U", "V">>

FIELDS_ORDERED == <<"N", "T", "M", "U", "V">>

\* np.float32 of a float64: round to a whole unit in the last place, ties to even
F32(v) == 2 * RoundDiv(v, 2)

\* "{:12f}" of a length: six decimals
Fmt12f(v) == 2 * RoundDiv(v, 2)

\* The byte stream of a file is a sequence of items: a header line (keyword,
\* string arguments, numeric arguments), the NUL byte, or one 4-byte word of
\* the payload.
Line(kw, sargs, nargs) == [t |-> "line", kw |-> kw, s |-> sargs, n |-> nargs, v |-> 0]
Nul == [t |-> "nul", kw |-> "", s |-> <<>>, n |-> <<>>, v |-> 0]
Word(v) == [t |-> "word", kw |-> "", s |-> <<>>, n |-> <<>>, v |-> v]

\* tobytes of a uint64 (little-endian: low word first) and of a float32
U64Bytes(v) ==
    LET hi == (v \div 65536) \div 65536
    IN  <<Word(v - (hi * 65536) * 65536), Word(hi)>>
F32Bytes(v) == <<Word(v)>>

\* concatenation of a sequence of sequences
Concat(ss) ==
    LET F[i \in 0..Len(ss)] == IF i = 0 THEN <<>> ELSE F[i - 1] \o ss[i]
    IN  F[Len(ss)]

\* A file: whether the stored bytes are gzip-compressed, and the byte stream
NoFile == [gz |-> FALSE, stream |-> <<>>, exists |-> FALSE]
File(gz, stream) == [gz |-> gz, stream |-> stream, exists |-> TRUE]

Paths == {"flow.dat", "flow.dat.gz"}

\* utils.is_gzip
is_gzip(filename) == filename = "flow.dat.gz"

\* _write_header: the header lines in the order of the fp.write calls
write_header(shape, spacing, origin, file_format, num_elements) ==
    <<Line("FORMAT", <<file_format>>, <<>>),
      Line("ORIGIN", <<>>, <<Fmt12f(origin[1]), Fmt12f(origin[2])>>),
      Line("SHAPE", <<>>, shape),
      Line("SPACING", <<>>, <<Fmt12f(spacing[1]), Fmt12f(spacing[2])>>),
      Line("NUMDATA", <<>>, <<num_elements>>),
      Line("FIELDS", <<"IX", "IY">> \o FIELDS_ORDERED, <<>>),
      Line("COMMENT", <<"Grid is regular but only non-empty bins are output">>, <<>>),
      Line("COMMENT", <<"There are 'NUMDATA' non-empty bins">>, <<>>),
      Line("COMMENT", <<"'FIELDS' is the different fields for each bin:">>, <<>>),
      Line("COMMENT", <<"'IX' and 'IY' are bin indices">>, <<>>),
      Line("COMMENT", <<"'N' is the average number of atoms">>, <<>>),
      Line("COMMENT", <<IF file_format = "GMX_FLOW_2"
                        THEN "'M' is the average mass density"
                        ELSE "'M' is the average mass">>, <<>>),
      Line("COMMENT", <<"'T' is the temperature">>, <<>>),
      Line("COMMENT", <<"'U' and 'V' is the mass-averaged flow">>, <<>>),
      Line("COMMENT", <<"Data is stored as 'NUMDATA' counts for each field">>, <<>>),
      Line("COMMENT", <<"'IX' and 'IY' are 64-bit unsigned integers">>, <<>>),
      Line("COMMENT", <<"Other fields are 32-bit floating point numbers">>, <<>>),
      Line("COMMENT", <<"Example: with 'NUMDATA' = 4 and 'FIELDS' = 'IX IY N T'">>, <<>>),
      Nul>>

\* a test of the atom count in place of the mass
keep_bin_by_count(cell) == cell["N"] # 0

\* the test of write_flow that decides which bins are written
keep_bin(cell) == cell["M"] # 0

\* an index along x that runs with the inner axis
ixs_inner(i, ny) == i % ny

\* the bin indices np.meshgrid(ix, iy, indexing='ij') gives flat index i (from 0)
ixs(i, ny) == i \div ny
iys(i, ny) == i % ny

\* pack_data: the number of kept bins and the list of arrays IX, IY, then the
\* data fields in the set order as float32.  A boolean index of the wrong
\* length raises IndexError.
pack_data(cells, shape, keep_inds) ==
    LET nx == shape[1]
        ny == shape[2]
        num_bins == Cardinality({i \in DOMAIN keep_inds : keep_inds[i]})
    IN  IF Len(keep_inds) # nx * ny
        THEN [err |-> "IndexError", num_bins |-> num_bins, packed |-> <<>>]
        ELSE [err |-> "",
              num_bins |-> num_bins,
              packed |->
                  << Mask([i \in 1..(nx * ny) |-> [u64 |-> TRUE, v |-> ixs(i - 1, ny)]],
                          keep_inds),
                     Mask([i \in 1..(nx * ny) |-> [u64 |-> TRUE, v |-> iys(i - 1, ny)]],
                          keep_inds) >>
                  \o [k \in DOMAIN FIELDS_ORDERED |->
                         Mask([i \in DOMAIN cells |->
                                  [u64 |-> FALSE, v |-> F32(cells[i][FIELDS_ORDERED[k]])]],
                              keep_inds)]]

\* vs.tobytes() of one packed array
tobytes(vs) ==
    Concat([i \in DOMAIN vs |->
               IF vs[i].u64 THEN U64Bytes(vs[i].v) ELSE F32Bytes(vs[i].v)])

\* write_flow after the check of the fields: the bins are packed, then the
\* file is opened and the header and the arrays are written
write_packed(path, g, d) ==
    LET data == d.cells
        keep_inds == [i \in DOMAIN data |-> keep_bin(data[i])]
    IN  The({ IF p.err # ""
              THEN [err |-> p.err, opened |-> FALSE, file |-> NoFile]
              ELSE [err |-> "", opened |-> TRUE,
                    file |-> File(is_gzip(path),
                                  write_header(g.shape, g.spacing, g.origin,
                                               as_header(g.version), p.num_bins)
                                  \o Concat([k \in DOMAIN p.packed |->
                                                tobytes(p.packed[k])]))] :
              p \in {pack_data(data, g.shape, keep_inds)} })

\* a writer that opens (and so truncates) the file before it checks the fields
write_flow_open_first(path, g, d) ==
    IF Range(FIELDS) \ g.fields # {}
    THEN [err |-> "ValueError", opened |-> TRUE, file |-> File(is_gzip(path), <<>>)]
    ELSE write_packed(path, g, d)

\* write_flow of object g with live data d: the error raised, and the file
\* written when the file was opened
write_flow(path, g, d) ==
    IF Range(FIELDS) \ g.fields # {}
    THEN [err |-> "ValueError", opened |-> FALSE, file |-> NoFile]
    ELSE write_packed(path, g, d)

\* str.upper() of the keywords that occur in the modelled files
Upper(kw) ==
    CASE kw \in {"shape", "Shape"} -> "SHAPE"
      [] kw \in {"spacing", "Spacing"} -> "SPACING"
      [] kw \in {"origin", "Origin"} -> "ORIGIN"
      [] kw \in {"fields", "Fields"} -> "FIELDS"
      [] kw \in {"numdata", "Numdata"} -> "NUMDATA"
      [] kw \in {"format", "Format"} -> "FORMAT"
      [] OTHER -> kw

\* kw.lstrip("FORMAT") of the spellings of the keyword FORMAT: the leading
\* characters among F, O, R, M, A, T are dropped
lstrip_FORMAT(kw) ==
    CASE kw = "FORMAT" -> ""
      [] kw = "Format" -> "ormat"
      [] OTHER -> kw

\* _read_data.read_file: the content read, through gzip for a '.gz' name with
\* the fallback to a plain read when the bytes are not gzip
read_file(file, filename) ==
    IF ~ file.exists THEN [err |-> "FileNotFoundError", content |-> <<>>]
    ELSE IF is_gzip(filename) THEN [err |-> "", content |-> file.stream]
    ELSE IF file.gz THEN [err |-> "UnicodeDecodeError", content |-> <<>>]
    ELSE [err |-> "", content |-> file.stream]

\* position of the first NUL of the content, 0 when there is none
FirstNul(content) ==
    IF \E i \in DOMAIN content : content[i].t = "nul"
    THEN Min({i \in DOMAIN content : content[i].t = "nul"})
    ELSE 0

\* _read_data.split_file_into_header_and_data: bytes.partition(b'\0')
split_file_into_header_and_data(content) ==
    LET k == FirstNul(content)
    IN  IF k = 0 THEN [header |-> content, data |-> <<>>]
        ELSE [header |-> SubSeq(content, 1, k - 1),
              data |-> SubSeq(content, k + 1, Len(content))]

\* _read_header.read_format: line.lstrip("FORMAT").strip() strips only the
\* characters F, O, R, M, A, T, so what is left of a keyword in another case
\* stays in front of the value
read_format(line) ==
    LET value == IF line.s = <<>> THEN "" ELSE line.s[1]
    IN  IF lstrip_FORMAT(line.kw) = "" THEN value
        ELSE IF value = "" THEN lstrip_FORMAT(line.kw)
        ELSE lstrip_FORMAT(line.kw) \o " " \o value

\* the last line of the header whose upper-cased keyword is kw, 0 if none
LastLine(header, kw) ==
    LET S == {i \in DOMAIN header : header[i].t = "line" /\ Upper(header[i].kw) = kw}
    IN  IF S = {} THEN 0 ELSE Max(S)

\* _read_header: fields, num_values and the info dictionary (has: its keys).
\* info['shape'] of a header without SHAPE raises KeyError; returning a name
\* that no line has bound raises UnboundLocalError.
read_header(header) ==
    LET at(kw) == LastLine(header, kw)
        has == {k \in {"SHAPE", "SPACING", "ORIGIN", "FORMAT"} : at(k) # 0}
        info == [has |-> has \cup {"num_bins"},
                 shape |-> IF at("SHAPE") # 0 THEN header[at("SHAPE")].n ELSE <<>>,
                 spacing |-> IF at("SPACING") # 0 THEN header[at("SPACING")].n ELSE <<>>,
                 origin |-> IF at("ORIGIN") # 0 THEN header[at("ORIGIN")].n ELSE <<>>,
                 format |-> IF at("FORMAT") # 0 THEN read_format(header[at("FORMAT")])
                            ELSE ""]
        nothing == [err |-> "", fields |-> <<>>, num_values |-> 0, info |-> info]
    IN  IF at("SHAPE") = 0 THEN [nothing EXCEPT !.err = "KeyError"]
        ELSE IF at("FIELDS") = 0 \/ at("NUMDATA") = 0
        THEN [nothing EXCEPT !.err = "UnboundLocalError"]
        ELSE [err |-> "",
              fields |-> header[at("FIELDS")].s,
              num_values |-> header[at("NUMDATA")].n[1],
              info |-> info]

\* the width in 4-byte words of the dtype of a payload label
ItemWords(label) == IF label \in {"IX", "IY"} THEN 2 ELSE 1

\* _read_values: np.frombuffer of num_values items per label at the running
\* offset.  A label without dtype raises KeyError, a short buffer ValueError.
read_values(content, num_values, fields) ==
    LET offset[k \in 1..(Len(fields) + 1)] ==
            IF k = 1 THEN 0
            ELSE offset[k - 1] + num_values * ItemWords(fields[k - 1])
        item(k, j) ==
            LET at == offset[k] + (j - 1) * ItemWords(fields[k])
            IN  IF ItemWords(fields[k]) = 2
                THEN content[at + 1].v + (content[at + 2].v * 65536) * 65536
                ELSE content[at + 1].v
        bad(k) ==
            IF fields[k] \notin {"IX", "IY"} \cup Range(DATA_FIELDS) THEN "KeyError"
            ELSE IF offset[k + 1] > Len(content) THEN "ValueError"
            ELSE ""
        failed == {k \in DOMAIN fields : bad(k) # ""}
    IN  IF failed # {}
        THEN [err |-> bad(Min(failed)), labels |-> {}, data |-> <<>>]
        ELSE [err |-> "",
              labels |-> Range(fields),
              data |-> [l \in Range(fields) |->
                           LET k == Max({i \in DOMAIN fields : fields[i] = l})
                           IN  [j \in 1..num_values |-> item(k, j)]]]

\* the coordinate (doubled) of the lower corner of bin i
centre_as_corner(x0, dx, i) == 2 * x0 + dx * (2 * i)

\* the bin-centre coordinate (doubled) of index i on an axis
centre(x0, dx, i) == 2 * x0 + dx * (2 * i + 1)

\* _read_data, last part: the dense grid from the payload arrays r and the
\* header h.  Bins without record stay zero; of two records of one bin the
\* later one stays; X and Y come from the header alone.
build_grid(h, r) ==
    LET info == h.info
        fail(e) == [err |-> e, grid |-> None, info |-> info]
    IN  IF {"ORIGIN", "SPACING"} \ info.has # {} THEN fail("KeyError")
        ELSE IF ({"IX", "IY"} \cup Range(DATA_FIELDS)) \ r.labels # {}
        THEN fail("KeyError")
        ELSE
        LET nx == info.shape[1]
            ny == info.shape[2]
            recs(i) == {j \in 1..h.num_values :
                           /\ r.data["IX"][j] = ixs(i - 1, ny)
                           /\ r.data["IY"][j] = iys(i - 1, ny)}
            cell(i) ==
                [l \in Range(FIELDS) |->
                    IF l = "X" THEN centre(info.origin[1], info.spacing[1], ixs(i - 1, ny))
                    ELSE IF l = "Y"
                    THEN centre(info.origin[2], info.spacing[2], iys(i - 1, ny))
                    ELSE The({ IF js = {} THEN 0 ELSE r.data[l][Max(js)] :
                               js \in {recs(i)} })]
        IN  IF \E j \in 1..h.num_values :
                   r.data["IX"][j] >= nx \/ r.data["IY"][j] >= ny
            THEN fail("IndexError")
            ELSE [err |-> "",
                  grid |-> Array(Range(FIELDS), <<nx * ny>>, [i \in 1..(nx * ny) |-> cell(i)]),
                  info |-> info]

\* _read_data, from the header on: the header is parsed, then the payload
read_content(parts) ==
    The({ IF h.err # "" THEN [err |-> h.err, grid |-> None, info |-> h.info]
          ELSE The({ IF r.err # "" THEN [err |-> r.err, grid |-> None, info |-> h.info]
                     ELSE build_grid(h, r) :
                     r \in {read_values(parts.data, h.num_values, h.fields)} }) :
          h \in {read_header(parts.header)} })

\* _read_data: the dense grid of the file as a flat array with the fields
\* __FIELDS, and the header info
read_data(file, filename) ==
    The({ IF c.err # "" THEN [err |-> c.err, grid |-> None, info |-> None]
          ELSE The({ read_content(parts) :
                     parts \in {split_file_into_header_and_data(c.content)} }) :
          c \in {read_file(file, filename)} })

\* a decoding that takes every other format string for the current version
decode_version_lenient(version_str) ==
    IF version_str = "GMX_FLOW_1" THEN V1 ELSE V2

\* read_flow: the version of a format string, "" for an unknown one
decode_version(version_str) ==
    IF version_str = "GMX_FLOW_1" THEN V1
    ELSE IF version_str = "GMX_FLOW_2" THEN V2
    ELSE ""

\* read_flow.get_header_field for shape, spacing, origin and format in this
\* order: the error of the first key that info lacks, "" if none
get_header_field(has) ==
    IF "SHAPE" \notin has THEN "ValueError: could not read shape"
    ELSE IF "SPACING" \notin has THEN "ValueError: could not read spacing"
    ELSE IF "ORIGIN" \notin has THEN "ValueError: could not read origin"
    ELSE IF "FORMAT" \notin has THEN "ValueError: could not read format"
    ELSE ""

\* read_flow, after _read_data returned d: the header fields are looked up (a
\* missing one raises ValueError), the format is decoded and the GmxFlow is
\* constructed as object o
make_flow(H, o, d) ==
    IF d.err # "" THEN Heap(H.objs, H.arrs, d.err)
    ELSE IF get_header_field(d.info.has) # ""
    THEN Heap(H.objs, H.arrs, get_header_field(d.info.has))
    ELSE IF decode_version(d.info.format) = ""
    THEN Heap(H.objs, H.arrs, "ValueError: unknown file format")
    ELSE The({ post_init(H, o, d.grid, info.shape, info.spacing,
                         decode_version(info.format),
                         info.origin) : info \in {d.info} })

\* read_flow into object o
read_flow(H, o, file, filename) ==
    The({ make_flow(H, o, d) : d \in {read_data(file, filename)} })

-----------------------------------------------------------------------------
(* src/src/gmx_flow/flow/convert.py *)

\* a bin area in place of the bin volume
bin_volume_without_width(spacing, width) == spacing[1] * spacing[2]

\* a test that lets every version be converted
is_version_any(version) == TRUE

\* the float division of a mass by the bin volume
FDiv(m, volume) == RoundDiv(m, volume)

\* bin_volume = dx * dy * width
bin_volume(spacing, width) == spacing[1] * spacing[2] * width

\* the test that decides whether the mass is divided
is_version_1(version) == version = V1

\* convert_gmx_flow_1_to_2, after converted = flow.copy() (the heap H1).
\* Indexing a record array with a field name it does not have raises
\* ValueError, which the handler of KeyError does not catch.
convert_copy(H, H1, c, width) ==
    LET converted == H1.objs[c]
        data == H1.arrs[converted.data]
    IN  IF H1.err # "" THEN Heap(H.objs, H.arrs, H1.err)
        ELSE IF is_version_1(converted.version)
        THEN IF "M" \notin data.names
             THEN Heap(H.objs, H.arrs, "ValueError")
             ELSE Heap([H1.objs EXCEPT ![c].version = V2],
                       [H1.arrs EXCEPT ![converted.data].cells =
                           [i \in DOMAIN data.cells |->
                               [data.cells[i] EXCEPT
                                   !["M"] = FDiv(@, bin_volume(converted.spacing, width))]]],
                       "")
        ELSE H1

\* convert_gmx_flow_1_to_2 of object o into object c
convert_gmx_flow_1_to_2(H, o, c, width) ==
    The({ convert_copy(H, H1, c, width) : H1 \in {copy(H, o, c)} })

\* data.convert_gmx_flow_1_to_2(data, info, width), the converter of the
\* dictionaries that read_data returns: pair o is data (a dictionary of one
\* array per label, without views) and info (format, spacing, shape,
\* origin); pair c is the returned deep copy.
data_convert_gmx_flow_1_to_2(H, o, c, width) ==
    LET info == H.objs[o]
        data == H.arrs[info.data]
        volume == info.spacing[1] * info.spacing[2] * width
        divided == [i \in DOMAIN data.cells |->
                       [data.cells[i] EXCEPT !["M"] = FDiv(@, volume)]]
    IN  Heap([H.objs EXCEPT ![c] =
                 [info EXCEPT !.data = DataSlot(c),
                              !.backup = DataSlot(c),
                              !.version = IF info.version = V1 THEN V2 ELSE @]],
             [H.arrs EXCEPT ![DataSlot(c)] =
                 IF info.version = V1 /\ "M" \in data.names
                 THEN [data EXCEPT !.cells = divided]
                 ELSE data],
             "")

-----------------------------------------------------------------------------
(* src/src/gmx_flow/flow/average.py *)

\* the sum of f[k] over k in 1..n
Sum(f, n) ==
    LET F[k \in 0..n] == IF k = 0 THEN 0 ELSE F[k - 1] + f[k]
    IN  F[n]

\* the fields that average_data indexes in the data of every flow field
AVERAGED == {"M", "N", "T", "U", "V", "flow"}

\* average_data, after avg_flow = flow_fields[0].copy() (the heap H1, the copy
\* being object c): the other fields are added, U, V and flow weighted with
\* their mass; then U, V and flow are divided by the summed mass (by the
\* number of fields where it is zero) and M, N, T by the number of fields.
\* Indexing a field that the data lacks raises ValueError.
average_sum(H, H1, flow_fields, c) ==
    LET n == Len(flow_fields)
        avg == H1.arrs[H1.objs[c].data]
        data(k) == H.arrs[H.objs[flow_fields[k]].data]
        rest(i, l) ==
            Sum([k \in 1..n |->
                    IF k = 1 THEN 0
                    ELSE IF l \in {"U", "V", "flow"}
                    THEN data(k).cells[i]["M"] * data(k).cells[i][l]
                    ELSE data(k).cells[i][l]], n)
        summed(i, l) == avg.cells[i][l] + rest(i, l)
        mass_div(i) == IF summed(i, "M") = 0 THEN n ELSE summed(i, "M")
        cell(i) ==
            [l \in avg.names |->
                IF l \in {"U", "V", "flow"} THEN FDiv(summed(i, l), mass_div(i))
                ELSE IF l \in {"M", "N", "T"} THEN FDiv(summed(i, l), n)
                ELSE avg.cells[i][l]]
    IN  IF H1.err # "" THEN Heap(H.objs, H.arrs, H1.err)
        ELSE IF \E k \in 1..n : ~ (AVERAGED \subseteq data(k).names)
        THEN Heap(H.objs, H.arrs, "ValueError")
        ELSE IF \E k \in 1..n : data(k).shape # avg.shape
        THEN Heap(H.objs, H.arrs, "ValueError")
        ELSE Heap(H1.objs,
                  [H1.arrs EXCEPT ![H1.objs[c].data].cells =
                      [i \in DOMAIN avg.cells |-> cell(i)]],
                  "")

\* average_data(flow_fields) of a non-empty list into object c
average_data(H, flow_fields, c) ==
    The({ average_sum(H, H1, flow_fields, c) : H1 \in {copy(H, flow_fields[1], c)} })

-----------------------------------------------------------------------------
(* The flow fields and files the behaviours start from *)

\* Values of the data fields of one bin: an empty bin, a bin without mass
\* whose other fields are set, a bin whose mass underflows as a float32, and
\* a full bin with values that are not float32 numbers.
Samples ==
    { [N |-> 0, T |-> 0, M |-> 0, U |-> 0, V |-> 0, extra |-> 0],
      [N |-> 4, T |-> 6, M |-> 0, U |-> 3, V |-> 4, extra |-> 7],
      [N |-> 0, T |-> 2, M |-> 1, U |-> 0, V |-> 2, extra |-> 7],
      [N |-> 3, T |-> 8, M |-> 6, U |-> 6, V |-> 8, extra |-> 7] }

\* grid shapes (nx, ny)
Shapes == {<<nx, ny>> : nx \in 1..MaxBins, ny \in 1..MaxBins} \cap
          {sh \in (1..MaxBins) \X (1..MaxBins) : sh[1] * sh[2] <= MaxBins}

\* spacing and origin of the grids
Geoms == { [spacing |-> <<2, 2>>, origin |-> <<0, 0>>],
           [spacing |-> <<3, 2>>, origin |-> <<3, -2>>] }

Full == Range(FIELDS)

\* the record array a caller builds for a grid: bin-centre coordinates and
\* vals[i] in bin i
UserArray(names, shape, geom, vals) ==
    Array(names, shape,
          [i \in 1..Prod(shape) |->
              [l \in names |->
                  IF l = "X"
                  THEN centre(geom.origin[1], geom.spacing[1], ixs(i - 1, shape[2]))
                  ELSE IF l = "Y"
                  THEN centre(geom.origin[2], geom.spacing[2], iys(i - 1, shape[2]))
                  ELSE vals[i][l]]])

NoObjs == [o \in ObjIds |-> None]
NoArrs == [a \in ArrIds |-> None]

\* GmxFlow(data, shape, spacing, version, origin) as object 1 of an empty heap
Construct(names, shape, geom, version, vals) ==
    post_init(Heap(NoObjs, NoArrs, ""), 1,
              UserArray(names, shape, geom, vals),
              shape, geom.spacing, version, geom.origin)

\* the state after constructing object 1
Constructed(H) ==
    /\ H.err = ""
    /\ objs = H.objs
    /\ arrs = H.arrs
    /\ made = [array |-> H.arrs[H.objs[1].backup],
               shape |-> H.objs[1].shape,
               box_size |-> H.objs[1].box_size]
    /\ result = 0
    /\ err = ""
    /\ last = [op |-> "init", path |-> "", arg |-> 0]

\* Files found on disk that this library did not write: a 2 x 1 grid with one
\* record whose mass is zero, and a 1 x 2 grid holding a record twice
OldFiles ==
    { File(FALSE,
           <<Line("FORMAT", <<"GMX_FLOW_1">>, <<>>),
             Line("ORIGIN", <<>>, <<2, 4>>),
             Line("SHAPE", <<>>, <<2, 1>>),
             Line("SPACING", <<>>, <<4, 2>>),
             Line("NUMDATA", <<>>, <<1>>),
             Line("FIELDS", <<"IX", "IY", "N", "T", "M", "U", "V">>, <<>>),
             Nul,
             Word(1), Word(0), Word(0), Word(0),
             Word(2), Word(4), Word(0), Word(6), Word(8)>>),
      File(FALSE,
           <<Line("FORMAT", <<"GMX_FLOW_2">>, <<>>),
             Line("ORIGIN", <<>>, <<0, 0>>),
             Line("SHAPE", <<>>, <<1, 2>>),
             Line("SPACING", <<>>, <<2, 2>>),
             Line("NUMDATA", <<>>, <<2>>),
             Line("FIELDS", <<"IX", "IY", "N", "T", "M", "U", "V">>, <<>>),
             Nul,
             Word(0), Word(0), Word(0), Word(0),
             Word(1), Word(0), Word(1), Word(0),
             Word(2), Word(4), Word(2), Word(4), Word(2), Word(4),
             Word(0), Word(0), Word(0), Word(0)>>) }

-----------------------------------------------------------------------------
(* Writing and reading files: object 1 is the caller's flow field, object 2
   the flow field read_flow returned *)

\* the field sets of the flow fields written: complete, with an extra field,
\* or lacking one data field (a GmxFlow without X or Y cannot be constructed)
NameSets == {Full, Full \cup {"extra"}} \cup {Full \ {l} : l \in Range(DATA_FIELDS)}

\* Either a complete flow field with any bin values and an empty directory, or
\* a flow field of any field set whose bins hold the same values and a file
\* that may exist already.
InitIO ==
    \E shape \in Shapes, geom \in Geoms, version \in {V1, V2} :
       \/ \E vals \in [1..Prod(shape) -> Samples] :
             /\ Constructed(Construct(Full, shape, geom, version, vals))
             /\ files = [p \in Paths |-> NoFile]
       \/ \E names \in NameSets, val \in Samples, old \in OldFiles \cup {NoFile} :
             /\ Constructed(Construct(names, shape, geom, version,
                                      [i \in 1..Prod(shape) |-> val]))
             /\ files = [p \in Paths |-> IF p = "flow.dat" THEN old ELSE NoFile]

\* write_flow(path, flow)
WriteFlow(path) ==
    \E w \in {write_flow(path, objs[1], arrs[objs[1].data])} :
        /\ files' = IF w.opened THEN [files EXCEPT ![path] = w.file] ELSE files
        /\ err' = w.err
        /\ last' = [op |-> "write_flow", path |-> path, arg |-> 0]
        /\ UNCHANGED <<objs, arrs, result, made>>

\* flow2 = read_flow(path); a call that raises returns nothing
ReadFlow(path) ==
    \E H0 \in {Heap([objs EXCEPT ![2] = None],
                     [arrs EXCEPT ![BackupSlot(2)] = None, ![DataSlot(2)] = None], "")} :
    \E H \in {read_flow(H0, 2, files[path], path)} :
        /\ objs' = H.objs
        /\ arrs' = H.arrs
        /\ err' = H.err
        /\ result' = IF H.err = "" THEN 2 ELSE 0
        /\ last' = [op |-> "read_flow", path |-> path, arg |-> 0]
        /\ UNCHANGED <<files, made>>

NextIO ==
    \/ \E path \in Paths : WriteFlow(path)
    \/ \E path \in Paths : ReadFlow(path)

SpecIO == InitIO /\ [][NextIO]_vars

-----------------------------------------------------------------------------
(* Properties of writing and reading *)

\* the file write_flow writes at path from object 1 in the current state
Written(path) == write_flow(path, objs[1], arrs[objs[1].data])

\* object 1 has every mandatory field and its view is unfiltered
CompleteUnfiltered ==
    /\ Full \subseteq objs[1].fields
    /\ objs[1].data = objs[1].backup

\* C1: a complete flow field with an unfiltered view, written by write_flow and
\* read back by read_flow from the same path, gives a field of the same shape
\* in which a bin with M # 0 has the N, T, M, U, V of the original as float32
\* and a bin with M = 0 has N, T, M, U, V all zero.
C1_RoundTrip ==
    \A p \in Paths :
        (last.op = "read_flow" /\ last.path = p /\ CompleteUnfiltered) =>
            \A w \in {Written(p)} :
                (w.opened /\ files[p] = w.file) =>
                    /\ err = ""
                    /\ result = 2
                    /\ objs[2].shape = objs[1].shape
                    /\ arrs[objs[2].data].shape = arrs[objs[1].data].shape
                    /\ \A i \in DOMAIN arrs[objs[1].data].cells :
                          \A l \in {"N", "T", "M", "U", "V"} :
                              arrs[objs[2].data].cells[i][l] =
                                  IF arrs[objs[1].data].cells[i]["M"] # 0
                                  THEN F32(arrs[objs[1].data].cells[i][l])
                                  ELSE 0

\* C1 witness: a field was read back from the file written from object 1, which
\* has a bin with mass whose values are not float32 numbers and a bin without
\* mass whose other fields are set
C1_Witness ==
    /\ last.op = "read_flow"
    /\ err = ""
    /\ CompleteUnfiltered
    /\ Written(last.path).opened
    /\ files[last.path] = Written(last.path).file
    /\ \E i, j \in DOMAIN arrs[objs[1].data].cells :
          /\ arrs[objs[1].data].cells[i]["M"] # 0
          /\ arrs[objs[1].data].cells[i]["N"] = 3
          /\ arrs[objs[2].data].cells[i]["N"] = 4
          /\ arrs[objs[1].data].cells[j]["M"] = 0
          /\ arrs[objs[1].data].cells[j]["N"] # 0
          /\ arrs[objs[2].data].cells[j]["N"] = 0

\* the header of the file at path, as the reader parses it
HeaderOf(path) ==
    read_header(split_file_into_header_and_data(files[path].stream).header)

\* C3: after a successful read_flow every bin (ix, iy) of the grid has
\* X = origin.x + spacing.x * (ix + 0.5) and Y = origin.y + spacing.y * (iy + 0.5)
\* with the ORIGIN, SHAPE and SPACING of the header, with or without a record.
C3_CoordinatesFromHeader ==
    (last.op = "read_flow" /\ err = "") =>
        \A h \in {HeaderOf(last.path)} :
            /\ arrs[objs[2].data].shape = h.info.shape
            /\ \A ix \in 0..(h.info.shape[1] - 1), iy \in 0..(h.info.shape[2] - 1) :
                  \A c \in {arrs[objs[2].data].cells[ix * h.info.shape[2] + iy + 1]} :
                      /\ c["X"] = 2 * h.info.origin[1] + h.info.spacing[1] * (2 * ix + 1)
                      /\ c["Y"] = 2 * h.info.origin[2] + h.info.spacing[2] * (2 * iy + 1)

\* C3 witness: a file with fewer records than bins and an origin off zero
\* was read
C3_Witness ==
    /\ last.op = "read_flow"
    /\ err = ""
    /\ HeaderOf(last.path).num_values < Prod(HeaderOf(last.path).info.shape)
    /\ HeaderOf(last.path).info.origin[1] # 0
    /\ arrs[objs[2].data].cells[Prod(objs[2].shape)]["X"] # 0

\* C8: write_flow of a flow field that lacks a mandatory field raises an error
\* and leaves the file system as it was: no file is created and none changed.
C8_MissingFieldWriteFails ==
    [][(last'.op = "write_flow" /\ Full \ objs[1].fields # {}) =>
           (err' = "ValueError" /\ files' = files)]_vars

\* C8 witness: the write of a field lacking a mandatory field failed at a path
\* where a file exists
C8_Witness ==
    /\ last.op = "write_flow"
    /\ err = "ValueError"
    /\ Full \ objs[1].fields # {}
    /\ files[last.path].exists

\* the positions in the live data of the bins with mass, in order
KeptBins(cells) == Mask([i \in DOMAIN cells |-> i], [i \in DOMAIN cells |-> cells[i]["M"] # 0])

\* C9: the stream write_flow writes is the lines FORMAT, ORIGIN, SHAPE, SPACING,
\* NUMDATA, FIELDS, then COMMENT lines, one NUL, then seven blocks of NUMDATA
\* values for IX, IY, N, T, M, U, V as the FIELDS line names them, and nothing
\* else.
C9_StreamLayout ==
    (last.op = "write_flow" /\ err = "") =>
        \A st \in {files[last.path].stream} :
        \A kept \in {KeptBins(arrs[objs[1].data].cells)} :
        \A n \in {Len(kept)} :
        \E k \in 7..Len(st) :
            /\ [i \in 1..6 |-> st[i].kw]
                   = <<"FORMAT", "ORIGIN", "SHAPE", "SPACING", "NUMDATA", "FIELDS">>
            /\ \A i \in 1..6 : st[i].t = "line"
            /\ \A i \in 7..(k - 1) : st[i].t = "line" /\ st[i].kw = "COMMENT"
            /\ st[k].t = "nul"
            /\ \A i \in (k + 1)..Len(st) : st[i].t = "word"
            /\ st[5].n = <<n>>
            /\ st[6].s = <<"IX", "IY", "N", "T", "M", "U", "V">>
            /\ Len(st) = k + 9 * n
            /\ \A r \in 1..n :
                  /\ st[k + 2 * r - 1].v = (kept[r] - 1) \div objs[1].shape[2]
                  /\ st[k + 2 * r].v = 0
                  /\ st[k + 2 * n + 2 * r - 1].v = (kept[r] - 1) % objs[1].shape[2]
                  /\ st[k + 2 * n + 2 * r].v = 0
                  /\ \A j \in 3..7 :
                        st[k + 4 * n + (j - 3) * n + r].v
                            = F32(arrs[objs[1].data].cells[kept[r]][st[6].s[j]])

\* C9 witness: a field with an extra field and the derived flow was written
\* with at least one bin
C9_Witness ==
    /\ last.op = "write_flow"
    /\ err = ""
    /\ {"extra", "flow"} \subseteq objs[1].fields
    /\ \E i \in DOMAIN arrs[objs[1].data].cells : arrs[objs[1].data].cells[i]["M"] # 0

-----------------------------------------------------------------------------
(* Narrowing the view of object 1, resetting it and writing it *)

\* the limits a caller passes for a field: none, or a value the field takes
Limits(label) ==
    {NoLimit} \cup {Limit(made.array.cells[i][label]) : i \in DOMAIN made.array.cells}

\* the bins of the narrowed grids: every value of the mass, the other fields set
ViewSamples == {v \in Samples : v["T"] # 0}

InitView ==
    /\ \E shape \in Shapes, geom \in Geoms :
          \E vals \in [1..Prod(shape) -> ViewSamples] :
             Constructed(Construct(Full, shape, geom, V2, vals))
    /\ files = [p \in Paths |-> NoFile]

\* the step of a GmxFlow method on object 1 that yields the heap H; last.arg
\* tells whether the view was narrowed when the method was called
Method(op, H) ==
    /\ objs' = H.objs
    /\ arrs' = H.arrs
    /\ err' = H.err
    /\ last' = [op |-> op, path |-> "",
                arg |-> IF objs[1].data # objs[1].backup THEN 1 ELSE 0]
    /\ UNCHANGED <<files, result, made>>

\* flow.set_xlim(xmin, xmax)
SetXlim ==
    \E xmin \in Limits("X"), xmax \in Limits("X") :
        \E H \in {set_xlim(Heap(objs, arrs, ""), 1, xmin, xmax)} : Method("set_xlim", H)

\* flow.set_ylim(ymin, ymax)
SetYlim ==
    \E ymin \in Limits("Y"), ymax \in Limits("Y") :
        \E H \in {set_ylim(Heap(objs, arrs, ""), 1, ymin, ymax)} : Method("set_ylim", H)

\* flow.set_clim(cmin, cmax, 'M')
SetClim ==
    \E cmin \in Limits("M"), cmax \in Limits("M") :
        \E H \in {set_clim(Heap(objs, arrs, ""), 1, cmin, cmax, "M")} :
            Method("set_clim", H)

\* flow.reset_view()
ResetView ==
    \E H \in {reset_view(Heap(objs, arrs, ""), 1)} : Method("reset_view", H)

\* flow = flow.copy(): the name of object 1 is bound to the copy, whose arrays
\* take the slots of object 1; the original is dropped
CopyFlow ==
    \E H \in {copy(Heap(objs, arrs, ""), 1, 2)} :
        Method("copy",
               Heap([H.objs EXCEPT ![1] = [H.objs[2] EXCEPT !.data = BackupSlot(1),
                                                            !.backup = BackupSlot(1)],
                                   ![2] = None, ![3] = None],
                    [a \in ArrIds |-> IF a = BackupSlot(1) THEN H.arrs[H.objs[2].backup]
                                      ELSE None],
                    H.err))

\* the caller narrows and resets the view, then writes the flow field
NextView ==
    \/ ~ files["flow.dat"].exists /\ SetXlim
    \/ ~ files["flow.dat"].exists /\ SetYlim
    \/ ~ files["flow.dat"].exists /\ SetClim
    \/ ~ files["flow.dat"].exists /\ ResetView
    \/ ~ files["flow.dat"].exists /\ CopyFlow
    \/ WriteFlow("flow.dat")

SpecView == InitView /\ [][NextView]_vars

\* the payload arrays of the file at path, as the reader decodes them
PayloadOf(path) ==
    read_values(split_file_into_header_and_data(files[path].stream).data,
                HeaderOf(path).num_values, HeaderOf(path).fields)

\* C2: in a file written by write_flow the (IX, IY) pairs of the payload are
\* the bins of the live data with M # 0, each once, with IX = flat index div ny
\* and IY = flat index mod ny, and NUMDATA is their number.
C2_SparseIndices ==
    (last.op = "write_flow" /\ err = "") =>
        \A cells \in {arrs[objs[1].data].cells} :
        \A ny \in {objs[1].shape[2]} :
        \A n \in {HeaderOf(last.path).num_values} :
        \A r \in {PayloadOf(last.path)} :
            /\ r.err = ""
            /\ n = Cardinality({i \in DOMAIN cells : cells[i]["M"] # 0})
            /\ {<<r.data["IX"][j], r.data["IY"][j]>> : j \in 1..n}
                   = {<<(i - 1) \div ny, (i - 1) % ny>> :
                          i \in {i \in DOMAIN cells : cells[i]["M"] # 0}}
            /\ Cardinality({<<r.data["IX"][j], r.data["IY"][j]>> : j \in 1..n}) = n

\* C2 witness: a file was written that leaves out a bin without mass whose
\* other fields are set and holds a bin at an index off zero
C2_Witness ==
    /\ last.op = "write_flow"
    /\ err = ""
    /\ objs[1].data # objs[1].backup
    /\ \E i, j \in DOMAIN arrs[objs[1].data].cells :
          /\ arrs[objs[1].data].cells[i]["M"] = 0
          /\ arrs[objs[1].data].cells[i]["N"] # 0
          /\ arrs[objs[1].data].cells[j]["M"] # 0
          /\ j = 2
          /\ objs[1].shape[2] = 1

\* C10: reset_view after any calls of set_xlim, set_ylim and set_clim makes the
\* live data equal to the grid the object was constructed with, and shape and
\* box_size equal to their values at construction.
C10_ResetRestores ==
    last.op = "reset_view" =>
        /\ err = ""
        /\ arrs[objs[1].data] = made.array
        /\ objs[1].shape = made.shape
        /\ objs[1].box_size = made.box_size

\* C10 witness: reset_view was called on a view narrowed to fewer bins
C10_Witness ==
    /\ last.op = "reset_view"
    /\ last.arg = 1
    /\ Prod(made.shape) > 1
    /\ Len(arrs[objs[1].data].cells) = Prod(made.shape)

-----------------------------------------------------------------------------
(* Converting object 1: object 2 is the converted field, object 3 the
   conversion of object 2 *)

\* the bins of the converted grids: with and without mass
ConvSamples == {v \in Samples : v["N"] > 2}

\* A flow field of either version, complete with any bins or lacking the mass
InitConv ==
    /\ \E shape \in Shapes, geom \in Geoms, version \in {V1, V2} :
          \/ \E vals \in [1..Prod(shape) -> ConvSamples] :
                Constructed(Construct(Full, shape, geom, version, vals))
          \/ \E val \in ConvSamples :
                Constructed(Construct(Full \ {"M"}, shape, geom, version,
                                      [i \in 1..Prod(shape) |-> val]))
    /\ files = [p \in Paths |-> NoFile]

\* converted = convert_gmx_flow_1_to_2(flow, width); a call that raises
\* returns nothing
Convert ==
    \E width \in 1..MaxWidth :
    \E H0 \in {Heap([objs EXCEPT ![2] = None, ![3] = None],
                    [a \in ArrIds |-> IF a > DataSlot(1) THEN None ELSE arrs[a]], "")} :
    \E H \in {convert_gmx_flow_1_to_2(H0, 1, 2, width)} :
        /\ objs' = H.objs
        /\ arrs' = H.arrs
        /\ err' = H.err
        /\ result' = IF H.err = "" THEN 2 ELSE 0
        /\ last' = [op |-> "convert", path |-> "", arg |-> width]
        /\ UNCHANGED <<files, made>>

\* convert_gmx_flow_1_to_2(converted, width) of the field just converted, with
\* the same width
ConvertAgain ==
    /\ last.op = "convert"
    /\ last.path = ""
    /\ err = ""
    /\ \E H \in {convert_gmx_flow_1_to_2(Heap(objs, arrs, ""), 2, 3, last.arg)} :
          /\ objs' = H.objs
          /\ arrs' = H.arrs
          /\ err' = H.err
          /\ result' = IF H.err = "" THEN 3 ELSE 0
          /\ last' = [op |-> "convert_again", path |-> "", arg |-> last.arg]
          /\ UNCHANGED <<files, made>>

\* data2, info2 = data.convert_gmx_flow_1_to_2(data, info, width) on the
\* dictionaries of the full grid of object 1
ConvertData ==
    /\ objs[1].data = objs[1].backup
    /\ \E width \in 1..MaxWidth :
       \E H0 \in {Heap([objs EXCEPT ![2] = None, ![3] = None],
                       [a \in ArrIds |-> IF a > DataSlot(1) THEN None ELSE arrs[a]], "")} :
       \E H \in {data_convert_gmx_flow_1_to_2(H0, 1, 2, width)} :
          /\ objs' = H.objs
          /\ arrs' = H.arrs
          /\ err' = H.err
          /\ result' = 2
          /\ last' = [op |-> "convert", path |-> "dict", arg |-> width]
          /\ UNCHANGED <<files, made>>

\* data.convert_gmx_flow_1_to_2(data2, info2, width) of the dictionaries just
\* converted, with the same width
ConvertDataAgain ==
    /\ last.op = "convert"
    /\ last.path = "dict"
    /\ \E H \in {data_convert_gmx_flow_1_to_2(Heap(objs, arrs, ""), 2, 3, last.arg)} :
          /\ objs' = H.objs
          /\ arrs' = H.arrs
          /\ err' = H.err
          /\ result' = 3
          /\ last' = [op |-> "convert_again", path |-> "dict", arg |-> last.arg]
          /\ UNCHANGED <<files, made>>

\* an in-place change of an array of the input or of the converted field:
\* flow.data['N'][0] = 9 or flow._backup_data['N'][0] = 9
Poke ==
    /\ last.op \in {"convert", "copy"}
    /\ err = ""
    /\ \E o \in {1, 2}, part \in {"data", "backup"} :
          /\ Len(arrs[objs[o][part]].cells) > 0
          /\ arrs' = [arrs EXCEPT ![objs[o][part]].cells[1]["N"] = 9]
          /\ last' = [op |-> "poke", path |-> part, arg |-> o]
          /\ UNCHANGED <<objs, files, result, err, made>>

\* the caller may narrow the view of the flow field before converting it
NextConv ==
    \/ last.op = "init" /\ SetXlim
    \/ last.op = "init" /\ SetYlim
    \/ Convert
    \/ ConvertAgain
    \/ ConvertData
    \/ ConvertDataAgain
    \/ Poke

SpecConv == InitConv /\ [][NextConv]_vars

\* the arrays of object o, live data and backing grid
ArraysOf(o) == <<arrs[objs[o].data], arrs[objs[o].backup]>>

\* array b is array a with M divided by the volume
Scaled(a, b, volume) ==
    /\ b.names = a.names
    /\ b.shape = a.shape
    /\ Len(b.cells) = Len(a.cells)
    /\ \A i \in DOMAIN a.cells :
          \A l \in a.names :
              b.cells[i][l] = IF l = "M" THEN FDiv(a.cells[i][l], volume)
                              ELSE a.cells[i][l]

\* C4, as stated: the converted field of a GMX_FLOW_1 input is the input's
\* data with M divided by dx * dy * w in every bin, the other fields equal,
\* and its version is GMX_FLOW_2.
C4_ScalesLiveData ==
    (last.op = "convert" /\ objs[1].version = V1 /\ "M" \in objs[1].fields) =>
        /\ err = ""
        /\ objs[2].version = V2
        /\ Scaled(arrs[objs[1].data], arrs[objs[2].data],
                  objs[1].spacing[1] * objs[1].spacing[2] * last.arg)

\* C4, amended: the converted field of a GMX_FLOW_1 input is the input's full
\* backing grid (a narrowed view is not kept) with M divided by dx * dy * w in
\* every bin, the other fields equal, and its version is GMX_FLOW_2.
C4_ScalesBackingGrid ==
    (last.op = "convert" /\ objs[1].version = V1 /\ "M" \in objs[1].fields) =>
        /\ err = ""
        /\ objs[2].version = V2
        /\ objs[2].data = objs[2].backup
        /\ Scaled(arrs[objs[1].backup], arrs[objs[2].data],
                  objs[1].spacing[1] * objs[1].spacing[2] * last.arg)

\* C4 witness: a GMX_FLOW_1 field with a narrowed view was converted with a
\* width above 1 and a mass was changed by the division
C4_Witness ==
    /\ last.op = "convert"
    /\ err = ""
    /\ objs[1].version = V1
    /\ objs[1].data # objs[1].backup
    /\ "M" \in objs[1].fields
    /\ last.arg > 1
    /\ \E i \in DOMAIN arrs[objs[2].data].cells :
          /\ arrs[objs[2].data].cells[i]["M"] # 0
          /\ arrs[objs[2].data].cells[i]["M"] # arrs[objs[1].backup].cells[i]["M"]

\* C5: converting a converted field again with the same width gives a field
\* equal to it in every field and bin, with version GMX_FLOW_2 on both: the
\* mass is not divided twice.
C5_Idempotent ==
    last.op = "convert_again" =>
        /\ err = ""
        /\ result = 3
        /\ arrs[objs[3].data] = arrs[objs[2].data]
        /\ arrs[objs[3].backup] = arrs[objs[2].backup]
        /\ objs[2].version = V2
        /\ objs[3].version = V2

\* C5 witness: a GMX_FLOW_1 field was converted twice and holds a mass that a
\* second division would change
C5_Witness ==
    /\ last.op = "convert_again"
    /\ err = ""
    /\ objs[1].version = V1
    /\ "M" \in arrs[objs[3].data].names
    /\ \E i \in DOMAIN arrs[objs[3].data].cells :
          FDiv(arrs[objs[3].data].cells[i]["M"],
               bin_volume(objs[1].spacing, last.arg)) # arrs[objs[3].data].cells[i]["M"]

\* C6: the converter leaves its input as it was and returns another object
\* with arrays of its own: an in-place change of the result's data or backing
\* grid changes no array of the input, and the reverse.
C6_NoAliasing ==
    [][/\ last'.op = "convert" =>
             /\ objs'[1] = objs[1]
             /\ ArraysOf(1)' = ArraysOf(1)
             /\ err' = "" =>
                   /\ result' # 1
                   /\ {objs'[result'].data, objs'[result'].backup}
                          \cap {objs'[1].data, objs'[1].backup} = {}
       /\ (last'.op = "poke" /\ last'.arg = 2) => ArraysOf(1)' = ArraysOf(1)
       /\ (last'.op = "poke" /\ last'.arg = 1) => ArraysOf(2)' = ArraysOf(2)]_vars

\* C6 witness: a GMX_FLOW_2 field was converted and an array of the result
\* was then changed in place
C6_Witness ==
    /\ last.op = "poke"
    /\ last.arg = 2
    /\ objs[1].version = V2
    /\ Len(arrs[objs[1].data].cells) > 0
    /\ arrs[objs[2].data].cells[1]["N"] = 9
    /\ arrs[objs[1].data].cells[1]["N"] # 9

\* C7: the conversion of a GMX_FLOW_1 field without M field raises nothing
\* and returns a field with the data of the input and version GMX_FLOW_2.
C7_ConvertsWithoutMass ==
    (last.op = "convert" /\ last.path = "" /\ objs[1].version = V1 /\ "M" \notin objs[1].fields) =>
        /\ err = ""
        /\ result = 2
        /\ objs[2].version = V2
        /\ arrs[objs[2].data] = arrs[objs[1].backup]

-----------------------------------------------------------------------------
(* Copying object 1, whose view may be narrowed, into object 2 *)

\* flow2 = flow.copy()
Copy ==
    \E H \in {copy(Heap(objs, arrs, ""), 1, 2)} :
        /\ objs' = H.objs
        /\ arrs' = H.arrs
        /\ err' = H.err
        /\ result' = 2
        /\ last' = [op |-> "copy", path |-> "", arg |-> 0]
        /\ UNCHANGED <<files, made>>

NextCopy ==
    \/ result = 0 /\ SetXlim
    \/ result = 0 /\ SetYlim
    \/ result = 0 /\ SetClim
    \/ result = 0 /\ Copy
    \/ Poke

SpecCopy == InitView /\ [][NextCopy]_vars

\* the properties of copy() that do not depend on the view of the original:
\* the original is untouched, the copy is another object with arrays of its
\* own and a backing grid equal to the original's, its data is a view of its
\* own backing grid, and in-place changes stay on their side
CopyIsDeep ==
    /\ last'.op = "copy" =>
          /\ err' = ""
          /\ result' # 1
          /\ objs'[1] = objs[1]
          /\ ArraysOf(1)' = ArraysOf(1)
          /\ {objs'[result'].data, objs'[result'].backup}
                 \cap {objs'[1].data, objs'[1].backup} = {}
          /\ arrs'[objs'[result'].backup] = arrs'[objs'[1].backup]
    /\ (last'.op = "poke" /\ last'.arg = 2) => ArraysOf(1)' = ArraysOf(1)
    /\ (last'.op = "poke" /\ last'.arg = 1) => ArraysOf(2)' = ArraysOf(2)
    /\ (last'.op = "poke" /\ last'.arg = 2 /\ last'.path = "backup") =>
          /\ arrs'[objs'[2].backup].cells[1]["N"] = 9
          /\ arrs'[objs'[2].data] = arrs'[objs'[2].backup]

\* C11, as stated: the copy is a distinct object whose data and backing grid
\* equal the original's and share no storage with them; in-place changes of
\* one side never show on the other, and a write to the copy's backing grid
\* shows through the copy's data.
C11_CopyEqualsOriginal ==
    [][/\ CopyIsDeep
       /\ last'.op = "copy" =>
             arrs'[objs'[result'].data] = arrs'[objs'[1].data]]_vars

\* C11, amended: as stated, except that the copy's data is the full backing
\* grid (the view of the copy is reset), which equals the original's data
\* when the original's view is not narrowed.
C11_CopyOfBackingGrid ==
    [][/\ CopyIsDeep
       /\ last'.op = "copy" =>
             /\ objs'[result'].data = objs'[result'].backup
             /\ objs'[result'].shape = arrs'[objs'[1].backup].shape
             /\ objs'[1].data = objs'[1].backup =>
                   arrs'[objs'[result'].data] = arrs'[objs'[1].data]]_vars

\* C11 witness: the backing grid of the copy of a narrowed flow field was
\* changed in place, which shows in the copy's data and not in the original
C11_Witness ==
    /\ last.op = "poke"
    /\ last.arg = 2
    /\ last.path = "backup"
    /\ result = 2
    /\ objs[1].data # objs[1].backup
    /\ arrs[objs[2].data].cells[1]["N"] = 9
    /\ arrs[objs[1].backup].cells[1]["N"] # 9

-----------------------------------------------------------------------------
(* The shape attribute and the shape of the live data *)

\* C12: in every state reached by set_xlim, set_ylim, set_clim, reset_view and
\* copy, the shape of the live data array of every flow field equals its shape
\* attribute, also when the bins a value filter leaves are no full rectangle.
C12_DataShapeIsShape ==
    \A o \in ObjIds :
        (objs[o] # None /\ err = "") => arrs[objs[o].data].shape = objs[o].shape

-----------------------------------------------------------------------------
(* Narrowing along an axis, with the limits of the call on record *)

\* the bins of the grids that are narrowed along an axis: with and without mass
LimSamples == {v \in Samples : v["N"] > 2}

\* grid shapes (nx, ny) of these grids
LimShapes == {sh \in (1..MaxLimBins) \X (1..MaxLimBins) : sh[1] * sh[2] <= MaxLimBins}

InitLim ==
    /\ \E shape \in LimShapes, geom \in Geoms :
          \E vals \in [1..Prod(shape) -> LimSamples] :
             Constructed(Construct(Full, shape, geom, V2, vals))
    /\ files = [p \in Paths |-> NoFile]

\* the step of set_xlim or set_ylim on object 1 with limits lo and hi
MethodAt(op, H, lo, hi) ==
    /\ objs' = H.objs
    /\ arrs' = H.arrs
    /\ err' = H.err
    /\ last' = [op |-> op, path |-> "limits", arg |-> 0, lo |-> lo, hi |-> hi]
    /\ UNCHANGED <<files, result, made>>

\* flow.set_xlim(xmin, xmax)
SetXlimAt ==
    \E xmin \in Limits("X"), xmax \in Limits("X") :
        \E H \in {set_xlim(Heap(objs, arrs, ""), 1, xmin, xmax)} :
            MethodAt("set_xlim", H, xmin, xmax)

\* flow.set_ylim(ymin, ymax)
SetYlimAt ==
    \E ymin \in Limits("Y"), ymax \in Limits("Y") :
        \E H \in {set_ylim(Heap(objs, arrs, ""), 1, ymin, ymax)} :
            MethodAt("set_ylim", H, ymin, ymax)

\* the view is narrowed any number of times, then once more with the limits
\* on record
NextLim ==
    \/ last.path = "" /\ err = "" /\ SetClim
    \/ last.path = "" /\ err = "" /\ SetXlim
    \/ last.path = "" /\ err = "" /\ SetYlim
    \/ last.path = "" /\ err = "" /\ SetXlimAt
    \/ last.path = "" /\ err = "" /\ SetYlimAt

SpecLim == InitLim /\ [][NextLim]_vars

\* the bins of a view that lie within the limits on label
BinsWithin(cells, label, lo, hi) ==
    {c \in Range(cells) : (lo.inf \/ c[label] >= lo.v) /\ (hi.inf \/ c[label] <= hi.v)}

\* the extent (nx, ny) of a non-empty set of bins
Extent(K, spacing) ==
    <<(Max({c["X"] : c \in K}) - Min({c["X"] : c \in K})) \div (2 * spacing[1]) + 1,
      (Max({c["Y"] : c \in K}) - Min({c["Y"] : c \in K})) \div (2 * spacing[2]) + 1>>

\* the array a is the full rectangle of the bins K as a 2D grid: bin [i, j] has
\* X = xmin + i * dx and Y = ymin + j * dy (coordinates are stored doubled)
GridOf(a, K, spacing) ==
    LET ext == Extent(K, spacing)
        x0 == Min({c["X"] : c \in K})
        y0 == Min({c["Y"] : c \in K})
    IN  /\ a.shape = ext
        /\ \A i \in 0..(ext[1] - 1), j \in 0..(ext[2] - 1) :
              /\ a.cells[i * ext[2] + j + 1]["X"] = x0 + 2 * i * spacing[1]
              /\ a.cells[i * ext[2] + j + 1]["Y"] = y0 + 2 * j * spacing[2]

\* C13: set_xlim(min, max) and set_ylim(min, max) leave in the live view the
\* bins of the previous view with X (or Y) within [min, max], a missing limit
\* being no limit, each once and with all its values; when these bins are a
\* full rectangle the view is the 2D grid of that rectangle and the shape
\* attribute is its shape.
C13_AxisLimits ==
    [][last'.path = "limits" =>
          \A K \in {BinsWithin(arrs[objs[1].data].cells,
                               IF last'.op = "set_xlim" THEN "X" ELSE "Y",
                               last'.lo, last'.hi)} :
             /\ Range(arrs'[objs'[1].data].cells) = K
             /\ Len(arrs'[objs'[1].data].cells) = Cardinality(K)
             /\ (K # {} /\ Cardinality(K) = Prod(Extent(K, objs[1].spacing))) =>
                   /\ err' = ""
                   /\ objs'[1].shape = Extent(K, objs[1].spacing)
                   /\ GridOf(arrs'[objs'[1].data], K, objs[1].spacing)]_vars

\* C13 witness: set_xlim with two limits dropped a column of a grid of two
\* rows and columns and left a rectangle of two bins, which lie on the limits
C13_Witness ==
    /\ last.path = "limits"
    /\ last.op = "set_xlim"
    /\ err = ""
    /\ ~ last.lo.inf
    /\ ~ last.hi.inf
    /\ objs[1].shape = <<1, 2>>
    /\ arrs[objs[1].backup].shape = <<2, 2>>
    /\ \E i \in DOMAIN arrs[objs[1].data].cells :
          arrs[objs[1].data].cells[i]["X"] = last.hi.v

-----------------------------------------------------------------------------
(* Reading files that other programs wrote *)

\* the data labels in the order of a FIELDS line, as positions 1..5
Orders == { <<1, 2, 3, 4, 5>>, <<5, 4, 3, 2, 1>>, <<3, 1, 5, 2, 4>> }

\* the FIELDS line IX IY followed by the labels of the set S in the order ord
FieldsLine(S, ord) ==
    <<"IX", "IY">> \o Mask([k \in 1..5 |-> DATA_FIELDS[ord[k]]],
                           [k \in 1..5 |-> DATA_FIELDS[ord[k]] \in S])

\* the spelling of a header keyword in upper, lower or title case
Cased(kw, case) ==
    IF case = "upper" THEN kw
    ELSE CASE kw = "SHAPE" -> IF case = "lower" THEN "shape" ELSE "Shape"
           [] kw = "SPACING" -> IF case = "lower" THEN "spacing" ELSE "Spacing"
           [] kw = "ORIGIN" -> IF case = "lower" THEN "origin" ELSE "Origin"
           [] kw = "FIELDS" -> IF case = "lower" THEN "fields" ELSE "Fields"
           [] kw = "NUMDATA" -> IF case = "lower" THEN "numdata" ELSE "Numdata"
           [] kw = "FORMAT" -> IF case = "lower" THEN "format" ELSE "Format"

\* the keywords of the header lines in the order write_flow writes them
Keywords == <<"FORMAT", "ORIGIN", "SHAPE", "SPACING", "NUMDATA", "FIELDS">>

\* the value of field l in the record of the bin with flat index b
RecordValue(b, l) ==
    2 * (10 * (b + 1) + Min({k \in 1..5 : DATA_FIELDS[k] = l}))

\* A file described by d: the grid d.shape with spacing (2, 2) and origin
\* (4, -2); records for the bins d.recs; the FORMAT value d.format; the FIELDS
\* line d.fields; the keyword d.kw spelled in d.case; no line for d.missing
FileOf(d) ==
    LET bins == Mask([b \in 1..Prod(d.shape) |-> b - 1],
                     [b \in 1..Prod(d.shape) |-> (b - 1) \in d.recs])
        line(kw) ==
            LET text == IF kw = d.kw THEN Cased(kw, d.case) ELSE kw
            IN  CASE kw = "FORMAT" -> Line(text, <<d.format>>, <<>>)
                  [] kw = "ORIGIN" -> Line(text, <<>>, <<4, -2>>)
                  [] kw = "SHAPE" -> Line(text, <<>>, d.shape)
                  [] kw = "SPACING" -> Line(text, <<>>, <<2, 2>>)
                  [] kw = "NUMDATA" -> Line(text, <<>>, <<Len(bins)>>)
                  [] kw = "FIELDS" -> Line(text, d.fields, <<>>)
        block(l) ==
            Concat([j \in DOMAIN bins |->
                       IF l = "IX" THEN U64Bytes(ixs(bins[j], d.shape[2]))
                       ELSE IF l = "IY" THEN U64Bytes(iys(bins[j], d.shape[2]))
                       ELSE F32Bytes(RecordValue(bins[j], l))])
    IN  File(FALSE,
             Mask([k \in 1..6 |-> line(Keywords[k])],
                  [k \in 1..6 |-> Keywords[k] # d.missing])
             \o <<Line("COMMENT", <<"written", "elsewhere">>, <<>>), Nul>>
             \o Concat([k \in DOMAIN d.fields |-> block(d.fields[k])]))

\* the plain file of a grid: as write_flow writes it
Plain(shape, recs) ==
    [shape |-> shape, recs |-> recs, format |-> "GMX_FLOW_2",
     fields |-> FieldsLine(Range(DATA_FIELDS), <<1, 2, 3, 4, 5>>),
     kw |-> "", case |-> "upper", missing |-> ""]

\* the files read: the plain file changed in its FORMAT value and the
\* spelling of one keyword, or by leaving out one line, or in its FIELDS line
FileDescriptions ==
    UNION { { [p EXCEPT !.format = f, !.kw = kw, !.case = c] :
                  f \in {"GMX_FLOW_1", "GMX_FLOW_2", "GMX_FLOW_3", "gmx_flow_1", ""},
                  kw \in Range(Keywords), c \in {"upper", "lower", "title"} }
            \cup { [p EXCEPT !.missing = kw] : kw \in Range(Keywords) }
            \cup { [p EXCEPT !.fields = FieldsLine(S, ord)] :
                       S \in SUBSET Range(DATA_FIELDS), ord \in Orders } :
            p \in { Plain(shape, recs) :
                       shape \in {sh \in Shapes : Prod(sh) = 2},
                       recs \in SUBSET {0, 1} } }

InitRead ==
    \E d \in FileDescriptions :
        /\ objs = NoObjs
        /\ arrs = NoArrs
        /\ files = [p \in Paths |-> IF p = "flow.dat" THEN FileOf(d) ELSE NoFile]
        /\ result = 0
        /\ err = ""
        /\ last = [op |-> "init", path |-> "", arg |-> 0]
        /\ made = d

NextRead == ReadFlow("flow.dat")

SpecRead == InitRead /\ [][NextRead]_vars

\* the file is the plain file but for its FORMAT value and the spelling of a
\* keyword other than FORMAT
PlainButFormat ==
    /\ made.missing = ""
    /\ (made.kw = "FORMAT" => made.case = "upper")
    /\ Range(made.fields) = {"IX", "IY"} \cup Range(DATA_FIELDS)

LabelOf(kw) ==
    CASE kw = "SHAPE" -> "shape"
      [] kw = "SPACING" -> "spacing"
      [] kw = "ORIGIN" -> "origin"
      [] kw = "FORMAT" -> "format"

\* C15: for a header without SHAPE, SPACING, ORIGIN or FORMAT line the header
\* codec _read_header completes without error, and read_flow fails with its
\* error 'could not read <label>' for the missing key and returns no flow field.
C15_MissingKeyFoundByCaller ==
    (last.op = "read_flow" /\ made.missing \in {"SHAPE", "SPACING", "ORIGIN", "FORMAT"}) =>
        /\ HeaderOf("flow.dat").err = ""
        /\ err = "ValueError: could not read " \o LabelOf(made.missing)
        /\ result = 0

\* C16: a header with one of the keywords SHAPE, SPACING, ORIGIN, FIELDS,
\* NUMDATA, FORMAT in lower or mixed case decodes to the same fields,
\* num_values and info, format value included, as with the keyword in upper
\* case.
C16_KeywordsAnyCase ==
    (last.op = "read_flow" /\ made.missing = "") =>
        HeaderOf("flow.dat") =
            read_header(split_file_into_header_and_data(
                            FileOf([made EXCEPT !.case = "upper"]).stream).header)

\* C17: read_flow succeeds on every file whose FIELDS line is IX IY and then
\* any of the labels N, T, M, U, V in any order, and each listed field has in
\* every bin with a record the value of that record, taken from the block at
\* the position of the label.
C17_AnyFieldsSubset ==
    (last.op = "read_flow" /\ made.missing = "" /\ made.case = "upper"
        /\ made.format = "GMX_FLOW_2") =>
        /\ err = ""
        /\ result # 0
        /\ \A l \in Range(made.fields) \ {"IX", "IY"} :
           \A b \in 0..(Prod(made.shape) - 1) :
              arrs[objs[result].data].cells[b + 1][l] =
                  IF b \in made.recs THEN RecordValue(b, l) ELSE 0

-----------------------------------------------------------------------------
(* Averaging the flow fields 1 and 2, which are on the same grid *)

\* the sets of fields of the averaged flow fields: complete, or lacking some
\* of N, T, U, V
AvgNameSets ==
    {Full \ S : S \in {{}, {"N"}, {"T"}, {"U"}, {"V"}, {"U", "V"}, {"N", "T", "U", "V"}}}

\* object 2 constructed next to object 1
ConstructSecond(H, names, shape, geom, version, vals) ==
    post_init(H, 2, UserArray(names, shape, geom, vals),
              shape, geom.spacing, version, geom.origin)

InitAvg ==
    /\ \E shape \in {sh \in Shapes : Prod(sh) <= 2}, geom \in Geoms :
       \E vals1 \in [1..Prod(shape) -> ViewSamples], val2 \in Samples :
       \E names \in AvgNameSets :
          \E H1 \in {Construct(names, shape, geom, V2, vals1)} :
             Constructed(ConstructSecond(H1, names, shape, geom, V2,
                                         [i \in 1..Prod(shape) |-> val2]))
    /\ files = [p \in Paths |-> NoFile]

\* the lists of flow fields passed to average_data
FlowLists == UNION {[1..n -> {1, 2}] : n \in 0..MaxFlows}

\* avg_flow = average_data(flow_fields); None for the empty list
Average ==
    \E flow_fields \in FlowLists :
    \E H0 \in {Heap([objs EXCEPT ![3] = None],
                    [a \in ArrIds |-> IF a > DataSlot(2) THEN None ELSE arrs[a]], "")} :
    \E H \in {IF flow_fields = <<>> THEN H0 ELSE average_data(H0, flow_fields, 3)} :
        /\ objs' = H.objs
        /\ arrs' = H.arrs
        /\ err' = H.err
        /\ result' = IF H.err = "" /\ flow_fields # <<>> THEN 3 ELSE 0
        /\ last' = [op |-> "average_data", path |-> "", arg |-> Len(flow_fields),
                    flows |-> flow_fields]
        /\ UNCHANGED <<files, made>>

NextAvg == Average

SpecAvg == InitAvg /\ [][NextAvg]_vars

\* the value of field l in bin i of the k-th flow field of the averaged list
Input(k, i, l) == arrs[objs[last.flows[k]].data].cells[i][l]

\* C18: for a non-empty list of flow fields on one grid, average_data returns
\* in every bin of non-zero summed mass U = sum(M_i * U_i) / sum(M_i) and
\* V = sum(M_i * V_i) / sum(M_i), the sums taken over all fields of the list,
\* the first included.
C18_MassWeightedVelocities ==
    (last.op = "average_data" /\ last.arg > 0 /\ objs[1].fields \cap Full = Full) =>
        /\ err = ""
        /\ result = 3
        /\ \A i \in DOMAIN arrs[objs[3].data].cells :
           \A M \in {Sum([k \in 1..last.arg |-> Input(k, i, "M")], last.arg)} :
              M # 0 =>
                 \A l \in {"U", "V"} :
                    arrs[objs[3].data].cells[i][l] =
                        FDiv(Sum([k \in 1..last.arg |-> Input(k, i, "M") * Input(k, i, l)],
                                 last.arg), M)

\* C19: average_data of a list of one flow field returns another object with
\* the data of that field in every field and bin, and its shape, spacing,
\* origin, box_size, fields, units, descriptions and version.
C19_SingleFieldIdentity ==
    (last.op = "average_data" /\ last.arg = 1 /\ objs[1].fields \cap Full = Full) =>
        /\ err = ""
        /\ result = 3
        /\ arrs[objs[3].data] = arrs[objs[last.flows[1]].data]
        /\ \A a \in {"shape", "spacing", "origin", "box_size", "fields", "units",
                     "descriptions", "version"} :
              objs[3][a] = objs[last.flows[1]][a]

\* C20: average_data of flow fields that lack some of N, T, U, V raises
\* nothing and averages the fields that they have.
C20_MissingOptionalFields ==
    (last.op = "average_data" /\ last.arg > 0) =>
        /\ err = ""
        /\ result = 3
        /\ \A i \in DOMAIN arrs[objs[3].data].cells :
              arrs[objs[3].data].cells[i]["M"] =
                  FDiv(Sum([k \in 1..last.arg |-> Input(k, i, "M")], last.arg), last.arg)

-----------------------------------------------------------------------------
(* utils/fileio.py: get_files_from_range *)

\* largest index of a numbered file that exists
MaxIndex == 4

\* "{:05d}".format(i) of an index that is not negative
Pad5(i) ==
    IF i < 10 THEN "0000" \o ToString(i)
    ELSE IF i < 100 THEN "000" \o ToString(i)
    ELSE IF i < 1000 THEN "00" \o ToString(i)
    ELSE IF i < 10000 THEN "0" \o ToString(i)
    ELSE ToString(i)

\* an argument that is given, as opposed to None
Some(v) == [none |-> FALSE, v |-> v]

\* "{}".format(base) of an optional string: the string itself, and "None" of None
Str(base) == IF base = None THEN "None" ELSE base.v

\* get_files_from_range.get_filename
get_filename(base, i, ext) == base \o Pad5(i) \o "." \o ext

\* os.path.exists / os.path.lexists on the file system fs
exists(fs, fn) == fn \in DOMAIN fs /\ fs[fn].exists

\* get_files_from_range.all_files_exist
all_files_exist(fs, no_check, filenames) ==
    IF no_check THEN TRUE
    ELSE \A k \in DOMAIN filenames : exists(fs, filenames[k])

\* get_files_from_range.get_yielded_single_or_list
get_yielded_single_or_list(filenames) ==
    IF Len(filenames) = 1 THEN filenames[1] ELSE filenames

\* get_files_from_range.transpose_if_multiple_bases
transpose_if_multiple_bases(groups, num_bases) ==
    IF num_bases = 1 THEN groups
    ELSE [b \in 1..num_bases |-> [k \in DOMAIN groups |-> groups[k][b]]]

\* the mutant of in_range: the index end is not yielded
in_range_exclusive(end, i) == IF end = None THEN TRUE ELSE i < end.v

\* the second half of the loop condition: end == None or i <= end
in_range(end, i) == IF end = None THEN TRUE ELSE i <= end.v

\* the loop condition of get_files_from_range
loop_condition(fs, a, f) ==
    all_files_exist(fs, a.no_check, f.fns) /\ in_range(a.end, f.i)

\* the frame of the generator after the statements before the loop
range_start(a) ==
    [op |-> "get_files_from_range", pc |-> "loop",
     i |-> a.begin,
     index_output |-> 1,
     num_per_output |-> IF a.num_per_output = None THEN 1 ELSE a.num_per_output.v,
     outext |-> IF a.outext = None THEN a.ext ELSE a.outext.v,
     fns |-> [b \in DOMAIN a.fnbase |-> get_filename(a.fnbase[b], a.begin, a.ext)],
     filename_group |-> <<>>]

\* the mutant of range_group_is_full: a group is yielded one file early
range_group_is_full_early(group, num_per_output) == Len(group) = num_per_output - 1

\* len(filename_group) == num_per_output
range_group_is_full(group, num_per_output) == Len(group) = num_per_output

\* what one pass through the loop body yields: a sequence of no or one item
range_yield(a, f) ==
    IF f.num_per_output < 2
    THEN IF a.output_base = None
         THEN <<get_yielded_single_or_list(f.fns)>>
         ELSE << <<get_yielded_single_or_list(f.fns),
                   get_filename(Str(a.output_base), f.i, f.outext)>> >>
    ELSE IF range_group_is_full(Append(f.filename_group,
                                       get_yielded_single_or_list(f.fns)),
                                f.num_per_output)
         THEN << <<transpose_if_multiple_bases(
                       Append(f.filename_group, get_yielded_single_or_list(f.fns)),
                       Len(a.fnbase)),
                   get_filename(Str(a.output_base), f.index_output, f.outext)>> >>
         ELSE <<>>

\* the frame of the generator after one pass through the loop body
range_body(a, f) ==
    [f EXCEPT
        !.filename_group =
            IF f.num_per_output < 2 THEN @
            ELSE IF range_group_is_full(Append(@, get_yielded_single_or_list(f.fns)),
                                        f.num_per_output)
                 THEN <<>>
                 ELSE Append(@, get_yielded_single_or_list(f.fns)),
        !.index_output =
            IF /\ f.num_per_output >= 2
               /\ range_group_is_full(Append(f.filename_group,
                                             get_yielded_single_or_list(f.fns)),
                                      f.num_per_output)
            THEN @ + 1 ELSE @,
        !.i = @ + a.stride,
        !.fns = [b \in DOMAIN a.fnbase |->
                    get_filename(a.fnbase[b], f.i + a.stride, a.ext)]]

-----------------------------------------------------------------------------
(* The generator of get_files_from_range, run over a directory of numbered  *)
(* files.  made holds the arguments of the call, last the frame of the      *)
(* generator, result the items yielded so far and files the directory.      *)

RangeBases == {<<"a_">>, <<"a_", "b_">>}

RangeIndices == 1..MaxIndex

\* a directory in which the files of base "a_" with the indices in A and
\* those of base "b_" with the indices 1..nb exist
RangeDirectory(A, nb) ==
    [fn \in {get_filename(b, i, "dat") : b \in {"a_", "b_"}, i \in RangeIndices} |->
        IF \/ \E i \in A : fn = get_filename("a_", i, "dat")
           \/ \E i \in 1..nb : fn = get_filename("b_", i, "dat")
        THEN File(FALSE, <<>>) ELSE NoFile]

RangeArguments ==
    [fnbase : RangeBases,
     output_base : {None, Some("out_")},
     num_per_output : {None, Some(2), Some(3)},
     begin : {1, 2},
     end : {None} \cup {Some(e) : e \in 0..MaxIndex},
     stride : {1, 2},
     ext : {"dat"},
     outext : {None, Some("xyz")},
     no_check : BOOLEAN]

InitRange ==
    /\ objs = NoObjs
    /\ arrs = NoArrs
    /\ err = ""
    /\ result = <<>>
    /\ made \in RangeArguments
    /\ last = [op |-> "get_files_from_range", pc |-> "created"]
    /\ \E A \in SUBSET RangeIndices, nb \in 0..MaxIndex :
          /\ Len(made.fnbase) = 1 => nb = 0
          /\ files = RangeDirectory(A, nb)

\* the first next(): the statements before the loop
RangeStart ==
    /\ last.pc = "created"
    /\ last' = range_start(made)
    /\ UNCHANGED <<objs, arrs, files, result, err, made>>

\* one pass through the loop body, which yields an item or none
RangeIterate ==
    /\ last.pc = "loop"
    /\ last.i <= MaxIndex + 1
    /\ loop_condition(files, made, last)
    /\ result' = result \o range_yield(made, last)
    /\ last' = range_body(made, last)
    /\ UNCHANGED <<objs, arrs, files, err, made>>

\* the loop condition fails: the generator returns
RangeStop ==
    /\ last.pc = "loop"
    /\ ~loop_condition(files, made, last)
    /\ last' = [last EXCEPT !.pc = "done"]
    /\ UNCHANGED <<objs, arrs, files, result, err, made>>

NextRange ==
    \/ RangeStart
    \/ RangeIterate
    \/ RangeStop

SpecRange == InitRange /\ [][NextRange]_vars

-----------------------------------------------------------------------------
(* C21: the paths of one base, with existence checking *)

\* the call has one base, checks that files exist and yields no groups
C21_Case ==
    /\ last.op = "get_files_from_range"
    /\ Len(made.fnbase) = 1
    /\ ~made.no_check
    /\ made.num_per_output = None

\* the input path of the k-th yielded item
RangeInput(k) == IF made.output_base = None THEN result[k] ELSE result[k][1]

\* the index i is not greater than the argument end, if one is given
UpToEnd(i) == IF made.end = None THEN TRUE ELSE i <= made.end.v

\* the items yielded so far are the paths of the indices begin, begin + step,
\* ... in this order, each exists and is not beyond end, and a generator that
\* has returned stopped at the first of these indices without a file or
\* beyond end
RangeYieldsEvery(step) ==
    /\ \A k \in 1..Len(result) :
          /\ RangeInput(k) = get_filename(made.fnbase[1], made.begin + (k - 1) * step,
                                          made.ext)
          /\ exists(files, RangeInput(k))
          /\ UpToEnd(made.begin + (k - 1) * step)
    /\ last.pc = "done" =>
          \/ ~exists(files, get_filename(made.fnbase[1],
                                         made.begin + Len(result) * step, made.ext))
          \/ ~UpToEnd(made.begin + Len(result) * step)
    /\ ~UpToEnd(made.begin) => Len(result) = 0

-----------------------------------------------------------------------------
(* C26: groups of input paths for one output path *)

\* the call has an output base and yields groups of at least two files
C26_Case ==
    /\ last.op = "get_files_from_range"
    /\ made.output_base # None
    /\ made.num_per_output # None

\* the j-th path of base b in the k-th yielded item
RangeGrouped(k, b, j) ==
    IF Len(made.fnbase) = 1 THEN result[k][1][j] ELSE result[k][1][b][j]

\* the number of paths of base b in the k-th yielded item
RangeGroupLen(k, b) ==
    IF Len(made.fnbase) = 1 THEN Len(result[k][1]) ELSE Len(result[k][1][b])

\* the k-th yielded item holds, for every base, the paths of the n indices
\* begin + ((k-1) n + j - 1) step, j = 1..n, in this order, with the output
\* path of index k and extension outext
RangeYieldsGroups(step, outext) ==
    \A k \in 1..Len(result) :
        /\ Len(result[k]) = 2
        /\ Len(made.fnbase) > 1 => Len(result[k][1]) = Len(made.fnbase)
        /\ \A b \in DOMAIN made.fnbase :
              /\ RangeGroupLen(k, b) = made.num_per_output.v
              /\ \A j \in 1..made.num_per_output.v :
                    RangeGrouped(k, b, j) =
                        get_filename(made.fnbase[b],
                                     made.begin
                                       + ((k - 1) * made.num_per_output.v + j - 1) * step,
                                     made.ext)
        /\ result[k][2] = get_filename(made.output_base.v, k, outext)

-----------------------------------------------------------------------------
(* utils/fileio.py: backup_file *)

\* largest index of a backup that exists before a call
MaxBackup == 3

\* largest number of fresh writes in a run
MaxWrites == 2

\* the paths that are backed up and written
BackupPaths == {"data.dat", "out/data.dat"}

\* os.path.dirname
dirname(path) == IF path = "out/data.dat" THEN "out" ELSE ""

\* os.path.basename
basename(path) == IF path = "out/data.dat" THEN "data.dat" ELSE path

\* os.path.join
join(dir, name) == IF dir = "" THEN name ELSE dir \o "/" \o name

\* backup_file.get_next
get_next(path, i) == join(dirname(path), "#" \o basename(path) \o "." \o ToString(i) \o "#")

\* the loop of backup_file from index i: the lowest index from i on at which
\* no file exists
RECURSIVE backup_index(_, _, _)
backup_index(fs, path, i) ==
    IF exists(fs, get_next(path, i)) THEN backup_index(fs, path, i + 1) ELSE i

\* os.rename(src, dst) on the file system fs
rename(fs, src, dst) == [fs EXCEPT ![dst] = fs[src], ![src] = NoFile]

\* the mutant of backup_file: the first backup name is taken, free or not
backup_file_to_first(fs, path) ==
    IF exists(fs, path) THEN rename(fs, path, get_next(path, 1)) ELSE fs

\* backup_file(path) on the file system fs
backup_file(fs, path) ==
    IF exists(fs, path)
    THEN rename(fs, path, get_next(path, backup_index(fs, path, 1)))
    ELSE fs

-----------------------------------------------------------------------------
(* Runs of backup_file(path), each followed by a fresh write to path, over a *)
(* directory with old files and old backups.  The content of a file is its   *)
(* stream: the name of an old file, or the number of the write.  result      *)
(* counts the writes.                                                        *)

\* every path of the directory
BackupDirectory ==
    BackupPaths \cup {get_next(p, i) : p \in BackupPaths, i \in 1..(MaxBackup + 1)}

InitBackup ==
    /\ objs = NoObjs
    /\ arrs = NoArrs
    /\ err = ""
    /\ result = 0
    /\ made = None
    /\ last = [op |-> "", path |-> "", arg |-> 0]
    /\ \E old \in SUBSET (BackupPaths \cup {get_next(p, i) : p \in BackupPaths,
                                                             i \in 1..(MaxBackup - 1)}) :
          files = [q \in BackupDirectory |->
                      IF q \in old THEN File(FALSE, <<"old " \o q>>) ELSE NoFile]

\* backup_file(path)
BackupFile(path) ==
    /\ backup_index(files, path, 1) <= MaxBackup + 1
    /\ files' = backup_file(files, path)
    /\ last' = [op |-> "backup_file", path |-> path, arg |-> 0]
    /\ UNCHANGED <<objs, arrs, result, err, made>>

\* a fresh file is written to the path that was backed up
WriteFresh(path) ==
    /\ last.op = "backup_file"
    /\ last.path = path
    /\ result < MaxWrites
    /\ files' = [files EXCEPT ![path] = File(FALSE, <<"write " \o ToString(result + 1)>>)]
    /\ result' = result + 1
    /\ last' = [op |-> "write", path |-> path, arg |-> 0]
    /\ UNCHANGED <<objs, arrs, err, made>>

NextBackup ==
    \/ \E path \in BackupPaths : BackupFile(path)
    \/ \E path \in BackupPaths : WriteFresh(path)

SpecBackup == InitBackup /\ [][NextBackup]_vars

\* the contents of the files of the file system fs
ContentsOf(fs) == {fs[q].stream : q \in {p \in DOMAIN fs : fs[p].exists}}

\* the backup names of path at which no file exists
FreeBackups(fs, path) ==
    {i \in 1..(MaxBackup + 2) : ~exists(fs, get_next(path, i))}

\* C22: over runs of backup_file(path), each followed by a fresh write to
\* path, no step overwrites or loses the content of a file; backup_file
\* moves a file at path to '#name.i#' in the same directory with i the lowest
\* index at which no file exists, changes no other file and leaves path
\* free; without a file at path it changes nothing.
C22_BackupKeepsEveryFile ==
    [][/\ ContentsOf(files) \subseteq ContentsOf(files')
       /\ last'.op = "backup_file" =>
             \A p \in {last'.path} :
                IF files[p].exists
                THEN \A i \in FreeBackups(files, p) :
                        (\A j \in FreeBackups(files, p) : i <= j) =>
                            /\ files'[join(dirname(p), "#" \o basename(p) \o "."
                                                        \o ToString(i) \o "#")] = files[p]
                            /\ ~files'[p].exists
                            /\ \A q \in DOMAIN files :
                                  q \notin {p, join(dirname(p), "#" \o basename(p) \o "."
                                                                 \o ToString(i) \o "#")}
                                      => files'[q] = files[q]
                ELSE files' = files]_vars

\* a written file was backed up to index 2, past an old backup of index 1,
\* in a directory
C22_Witness ==
    /\ last.op = "backup_file"
    /\ last.path = "out/data.dat"
    /\ files["out/#data.dat.1#"].exists
    /\ files["out/#data.dat.2#"].exists
    /\ files["out/#data.dat.2#"].stream = <<"write 1">>
    /\ ~files["out/data.dat"].exists

-----------------------------------------------------------------------------
(* File handles of read_flow and write_flow *)

\* a file on a medium with a fault: "" none, "truncated" a gzip stream that
\* ends before its end-of-stream marker, "io" a medium whose reads fail
Faulty(file, fault) ==
    [gz |-> file.gz, stream |-> file.stream, exists |-> file.exists, fault |-> fault]

\* a handle that open() or gzip.open() returned, and whether it was closed
Handle(path, gzip, closed) == [path |-> path, gzip |-> gzip, closed |-> closed]

\* _read_data.read_file: the error fp.read() raises and the handles the call
\* opened.  fp.close() is the last statement and closes the handle fp is
\* bound to; the handle of a gzip read that failed with BadGzipFile is
\* dropped when fp is bound to the plain handle, and is closed by then only
\* if the interpreter has finalised it (collected).
read_file_handles(file, filename, collected) ==
    IF ~file.exists THEN [err |-> "FileNotFoundError", handles |-> <<>>]
    ELSE IF file.fault = "io"
    THEN [err |-> "OSError", handles |-> <<Handle(filename, is_gzip(filename), FALSE)>>]
    ELSE IF ~is_gzip(filename)
    THEN [err |-> "", handles |-> <<Handle(filename, FALSE, TRUE)>>]
    ELSE IF ~file.gz
    THEN [err |-> "", handles |-> <<Handle(filename, TRUE, collected),
                                    Handle(filename, FALSE, TRUE)>>]
    ELSE IF file.fault = "truncated"
    THEN [err |-> "EOFError", handles |-> <<Handle(filename, TRUE, FALSE)>>]
    ELSE [err |-> "", handles |-> <<Handle(filename, TRUE, TRUE)>>]

\* write_flow with the handle it opens: the with statement closes the handle
\* when the block is left, by its end or by an error of a write (fault)
write_flow_handles(path, g, d, fault) ==
    The({ IF ~w.opened THEN [err |-> w.err, opened |-> FALSE, file |-> NoFile,
                             handles |-> <<>>]
          ELSE IF fault = "io"
          THEN [err |-> "OSError", opened |-> TRUE, file |-> File(is_gzip(path), <<>>),
                handles |-> <<Handle(path, is_gzip(path), TRUE)>>]
          ELSE [err |-> "", opened |-> TRUE, file |-> w.file,
                handles |-> <<Handle(path, is_gzip(path), TRUE)>>] :
          w \in {write_flow(path, g, d)} })

\* the files on disk before the calls
HandleFiles ==
    {Faulty(NoFile, "")}
    \cup {Faulty(File(FALSE, f.stream), fault) : f \in OldFiles, fault \in {"", "io"}}
    \cup {Faulty(File(TRUE, f.stream), fault) :
             f \in OldFiles, fault \in {"", "truncated", "io"}}

InitHandles ==
    /\ \E names \in {Full, Full \ {"N"}}, shape \in Shapes, geom \in Geoms,
          val \in {s \in Samples : s["M"] = 6} :
          \E H \in {Construct(names, shape, geom, V2, [i \in 1..Prod(shape) |-> val])} :
             /\ objs = H.objs
             /\ arrs = H.arrs
    /\ files \in [Paths -> HandleFiles]
    /\ made = [handles |-> <<>>]
    /\ result = 0
    /\ err = ""
    /\ last = [op |-> "init", path |-> "", arg |-> 0]

\* flow2 = read_flow(path), with the handles of the call in made
ReadFlowHandles(path) ==
    \E collected \in BOOLEAN :
    \E r \in {read_file_handles(files[path], path, collected)} :
    \E H0 \in {Heap([objs EXCEPT ![2] = None],
                     [arrs EXCEPT ![BackupSlot(2)] = None, ![DataSlot(2)] = None], "")} :
    \E H \in {IF r.err \in {"OSError", "EOFError"}
              THEN Heap(H0.objs, H0.arrs, r.err)
              ELSE read_flow(H0, 2, files[path], path)} :
        /\ objs' = H.objs
        /\ arrs' = H.arrs
        /\ err' = H.err
        /\ result' = IF H.err = "" THEN 2 ELSE 0
        /\ made' = [handles |-> r.handles]
        /\ last' = [op |-> "read_flow", path |-> path, arg |-> 0]
        /\ UNCHANGED files

\* write_flow(path, flow), with the handles of the call in made
WriteFlowHandles(path) ==
    \E fault \in {"", "io"} :
    \E w \in {write_flow_handles(path, objs[1], arrs[objs[1].data], fault)} :
        /\ files' = IF w.opened THEN [files EXCEPT ![path] = Faulty(w.file, "")] ELSE files
        /\ err' = w.err
        /\ made' = [handles |-> w.handles]
        /\ last' = [op |-> "write_flow", path |-> path, arg |-> 0]
        /\ UNCHANGED <<objs, arrs, result>>

NextHandles ==
    \/ \E path \in Paths : ReadFlowHandles(path)
    \/ \E path \in Paths : WriteFlowHandles(path)

SpecHandles == InitHandles /\ [][NextHandles]_vars

\* C23: every file handle opened by read_flow or write_flow is closed by the
\* time the call returns or raises: after normal completion, after an error
\* while reading or writing, and after the fallback from a failed gzip read
\* to a plain read.
C23_HandlesClosed ==
    last.op \in {"read_flow", "write_flow"} =>
        \A k \in DOMAIN made.handles : made.handles[k].closed

-----------------------------------------------------------------------------
(* gmx_flow.py, data/read.py: the reader that works on a file pointer *)

\* buf_size of read_header_string, scaled down from 1024 bytes
BufSize == 3

\* largest number of bytes of a header
MaxHeader == 4

\* largest number of bytes of a payload
MaxPayload == 2

\* the bytes of a file: an ASCII character of the header, a byte above 127,
\* the NUL byte, and a byte of the payload that is not NUL
Bytes == {"h", "x", "0", "d"}

\* buf.find(b'\0') counted from 1: the position of the first NUL byte of
\* buf, 0 when there is none
find_nul(buf) ==
    IF \E k \in DOMAIN buf : buf[k] = "0"
    THEN CHOOSE k \in DOMAIN buf : buf[k] = "0" /\ \A j \in 1..(k - 1) : buf[j] # "0"
    ELSE 0

\* fp.read(size) at position tell (bytes before the pointer) of the content
fp_read(content, tell, size) ==
    SubSeq(content, tell + 1,
           IF tell + size < Len(content) THEN tell + size ELSE Len(content))

\* bytes.decode("ascii") raises UnicodeDecodeError for a byte above 127
is_ascii(buf) == \A k \in DOMAIN buf : buf[k] # "x"

\* offset = buf_size - pos - 1 of read_header_string (pos counted from 0)
seek_offset(buf, pos) == BufSize - pos - 1

\* one pass through the loop of read_header_string: a read of buf_size
\* bytes, the search for NUL, and the seek back or the next pass
read_header_string_pass(content, f) ==
    LET buf == fp_read(content, f.tell, BufSize)
        tell == f.tell + Len(buf)
        pos == find_nul(buf) - 1
    IN  IF pos # -1
        THEN IF ~is_ascii(SubSeq(buf, 1, pos))
             THEN [f EXCEPT !.pc = "raised", !.err = "UnicodeDecodeError", !.tell = tell]
             ELSE IF tell - seek_offset(buf, pos) < 0
             THEN [f EXCEPT !.pc = "raised", !.err = "OSError", !.tell = tell,
                            !.header_str = @ \o SubSeq(buf, 1, pos)]
             ELSE [f EXCEPT !.pc = "header", !.tell = tell - seek_offset(buf, pos),
                            !.header_str = @ \o SubSeq(buf, 1, pos)]
        ELSE IF ~is_ascii(buf)
             THEN [f EXCEPT !.pc = "raised", !.err = "UnicodeDecodeError", !.tell = tell]
             ELSE [f EXCEPT !.tell = tell, !.header_str = @ \o buf]

\* the frame of read_data when _read_header is entered
read_data_start ==
    [op |-> "read_data", pc |-> "scan", tell |-> 0, header_str |-> <<>>, err |-> "",
     values |-> <<>>]

-----------------------------------------------------------------------------
(* read_data(filename) on a file of a header, a NUL byte or none and a        *)
(* payload.  last is the frame of the call: the position of the file pointer *)
(* (tell), the header string scanned so far, and the bytes read as values.   *)

\* n bytes b
Fill(n, b) == [k \in 1..n |-> b]

\* the files read: a header with or without a byte above 127, then nothing,
\* or a NUL byte and a payload of bytes that are not NUL or that are all NUL
ScanFiles ==
    LET headers == {Fill(n, "h") : n \in 0..MaxHeader}
                    \cup {Append(Fill(n, "h"), "x") : n \in 0..(MaxHeader - 1)}
        payloads == {Fill(n, "d") : n \in 0..MaxPayload}
                     \cup {Fill(n, "0") : n \in 1..MaxPayload}
    IN  headers \cup {h \o <<"0">> \o p : h \in headers, p \in payloads}

InitScan ==
    /\ objs = NoObjs
    /\ arrs = NoArrs
    /\ err = ""
    /\ result = 0
    /\ \E content \in ScanFiles, wellformed \in BOOLEAN :
          /\ files = [p \in {"flow.dat"} |-> File(FALSE, content)]
          /\ made = [wellformed |-> wellformed]
    /\ last = read_data_start

\* one pass through the loop of read_header_string
ScanHeader ==
    /\ last.pc = "scan"
    /\ last' = read_header_string_pass(files["flow.dat"].stream, last)
    /\ err' = last'.err
    /\ UNCHANGED <<objs, arrs, files, result, made>>

\* the rest of _read_header: the lines of the header string are parsed; a
\* header that lacks SHAPE, FIELDS or NUMDATA (an empty one does) raises
ParseHeader ==
    /\ last.pc = "header"
    /\ last' = IF made.wellformed /\ Len(last.header_str) > 0
               THEN [last EXCEPT !.pc = "values"]
               ELSE [last EXCEPT !.pc = "raised", !.err = "KeyError"]
    /\ err' = last'.err
    /\ UNCHANGED <<objs, arrs, files, result, made>>

\* _read_values: np.fromfile reads from the position of the file pointer
ReadValues ==
    /\ last.pc = "values"
    /\ last' = [last EXCEPT !.pc = "returned",
                            !.values = fp_read(files["flow.dat"].stream, last.tell,
                                               Len(files["flow.dat"].stream)),
                            !.tell = Len(files["flow.dat"].stream)]
    /\ result' = 1
    /\ UNCHANGED <<objs, arrs, files, err, made>>

NextScan ==
    \/ ScanHeader
    \/ ParseHeader
    \/ ReadValues

SpecScan == InitScan /\ [][NextScan]_vars

\* the interpreter keeps running the call: a step that can be taken is taken
SpecScanFair == SpecScan /\ WF_vars(NextScan)

\* C24: reading a file that contains no NUL byte terminates with an error:
\* the scan of the header does not go on forever at the end of the file and
\* no data is returned.
C24_NoNulTerminates ==
    (find_nul(files["flow.dat"].stream) = 0) ~> (last.pc = "raised")

\* C27: after _read_header returns, the file position is one byte past the
\* first NUL byte, and the values are read from the first byte of the
\* payload, for every header length and file size.
C27_PointerAtPayload ==
    /\ last.pc = "values" => last.tell = find_nul(files["flow.dat"].stream)
    /\ last.pc = "returned" =>
          last.values = SubSeq(files["flow.dat"].stream,
                               find_nul(files["flow.dat"].stream) + 1,
                               Len(files["flow.dat"].stream))

-----------------------------------------------------------------------------
(* flow/supersample.py *)

\* largest resampling factor
MaxFactor == 2

\* largest number of bins of a flow field that a script works on in a chain
\* of operations
MaxChainBins == 2

\* the labels argument of supersample: None, a list of data fields as
\* draw_flow_map.py passes, or a list with a field that the data lacks
SupersampleLabels == {None, Some({"M"}), Some({"M", "U", "V"}), Some({"M", "none"})}

\* the mutant of supersample_version: the version is not passed on and takes
\* the default of the GmxFlow class
supersample_version_default(flow) == V2

\* version=flow.version of the GmxFlow that supersample returns
supersample_version(flow) == flow.version

\* supersample.get_coords_1d, doubled as the coordinates of the arrays are:
\* x0 + (dx / N) * k
get_coords_1d(x0, dx, k, N) == 2 * x0 + ((2 * dx) \div N) * k

\* supersample(flow, N, labels) of object o into object c.  ndimage.zoom
\* interpolates with splines, which is not computed here: every resampled
\* bin holds the values zoomed.  flow.fields is a list, so that the default
\* labels=None raises AttributeError at flow.fields.difference; a label
\* that the data lacks and a view whose data is not a full grid raise
\* ValueError.
supersample(H, o, c, N, labels, zoomed) ==
    LET flow == H.objs[o]
        data == H.arrs[flow.data]
        nx == flow.shape[1]
        ny == flow.shape[2]
        new_shape == <<N * nx, N * ny>>
    IN  IF labels = None THEN Heap(H.objs, H.arrs, "AttributeError")
        ELSE IF \E l \in labels.v : l \in {"X", "Y"} \/ l \notin data.names
        THEN Heap(H.objs, H.arrs, "ValueError")
        ELSE IF Len(data.cells) # nx * ny
        THEN Heap(H.objs, H.arrs, "ValueError")
        ELSE post_init(H, c,
                       Array({"X", "Y"} \cup labels.v, new_shape,
                             [i \in 1..(N * nx * N * ny) |->
                                 [l \in {"X", "Y"} \cup labels.v |->
                                     IF l = "X"
                                     THEN get_coords_1d(flow.origin[1], flow.spacing[1],
                                                        ixs(i - 1, N * ny), N)
                                     ELSE IF l = "Y"
                                     THEN get_coords_1d(flow.origin[2], flow.spacing[2],
                                                        iys(i - 1, N * ny), N)
                                     ELSE zoomed[l]]]),
                       new_shape,
                       <<flow.spacing[1] \div N, flow.spacing[2] \div N>>,
                       supersample_version(flow),
                       flow.origin)

-----------------------------------------------------------------------------
(* The operations of the library in any order on the flow field of a script. *)
(* Object 1 is the flow field the name flow is bound to; results are object  *)
(* 2 or 3, and flow = result binds the name to a result.                     *)

InitVersion ==
    /\ \E shape \in {sh \in Shapes : Prod(sh) <= MaxChainBins}, geom \in Geoms,
          version \in {V1, V2}, val \in {v \in ConvSamples : v["M"] # 0} :
          Constructed(Construct(Full, shape, geom, version,
                                [i \in 1..Prod(shape) |-> val]))
    /\ files = [p \in Paths |-> NoFile]

\* result = supersample(flow, N, labels)
Supersample ==
    \E N \in {n \in 1..MaxFactor : objs[1].spacing[1] % n = 0 /\ objs[1].spacing[2] % n = 0},
       labels \in SupersampleLabels, zoomed \in {v \in ConvSamples : v["M"] # 0} :
    \E H0 \in {Heap([objs EXCEPT ![2] = None, ![3] = None],
                    [a \in ArrIds |-> IF a > DataSlot(1) THEN None ELSE arrs[a]], "")} :
    \E H \in {supersample(H0, 1, 2, N, labels, zoomed)} :
        /\ objs' = H.objs
        /\ arrs' = H.arrs
        /\ err' = H.err
        /\ result' = IF H.err = "" THEN 2 ELSE 0
        /\ last' = [op |-> "supersample", path |-> "", arg |-> N]
        /\ UNCHANGED <<files, made>>

\* flow = result: the name of object 1 is bound to the object that a
\* conversion, a resampling or a read returned, whose arrays take the slots
\* of object 1; the other objects are dropped
Adopt ==
    /\ result \in {2, 3}
    /\ last.op \in {"convert", "convert_again", "supersample", "read_flow"}
    /\ err = ""
    /\ objs[result] # None
    /\ Prod(objs[result].shape) <= MaxChainBins
    /\ objs' = [o \in ObjIds |->
                   IF o = 1
                   THEN [objs[result] EXCEPT
                            !.backup = BackupSlot(1),
                            !.data = IF objs[result].data = objs[result].backup
                                     THEN BackupSlot(1) ELSE DataSlot(1)]
                   ELSE None]
    /\ arrs' = [a \in ArrIds |->
                   IF a = BackupSlot(1) THEN arrs[objs[result].backup]
                   ELSE IF a = DataSlot(1) /\ objs[result].data # objs[result].backup
                   THEN arrs[objs[result].data]
                   ELSE None]
    /\ result' = 0
    /\ last' = [op |-> "adopt", path |-> "", arg |-> result]
    /\ UNCHANGED <<files, err, made>>

\* no result is pending and no file is written yet
Working == objs[2] = None /\ objs[3] = None /\ ~ files["flow.dat"].exists

\* the script narrows, resets, copies and resamples its flow field, converts
\* it, writes it once and reads the file, averages it with a result, and
\* goes on with a result
NextVersion ==
    \/ Working /\ SetXlim
    \/ Working /\ SetYlim
    \/ Working /\ SetClim
    \/ Working /\ ResetView
    \/ Working /\ CopyFlow
    \/ Working /\ Supersample
    \/ Convert
    \/ ConvertAgain
    \/ objs[2] # None /\ Average
    \/ ~ files["flow.dat"].exists /\ WriteFlow("flow.dat")
    \/ files["flow.dat"].exists /\ ReadFlow("flow.dat")
    \/ Adopt

SpecVersion == InitVersion /\ [][NextVersion]_vars

-----------------------------------------------------------------------------
(* C25, C28: the version of a flow field and what goes with it *)

\* the objects a step returns or binds: the flow field of the script for its
\* methods and for flow = result, object 2 or 3 for the functions
VersionOutput(op) ==
    IF op \in {"set_xlim", "set_ylim", "set_clim", "reset_view", "copy", "adopt"} THEN 1
    ELSE IF op \in {"convert", "supersample", "read_flow"} THEN 2
    ELSE IF op \in {"convert_again", "average_data"} THEN 3
    ELSE 0

\* C25: the version follows the state machine V1 --Convert--> V2,
\* V2 --Convert--> V2 and nothing else.  In every step the result of copy,
\* set_xlim, set_ylim, set_clim, reset_view, supersample, average_data (of
\* inputs of one version) and of read_flow right after write_flow has the
\* version of its input, the result of a conversion is V2, binding a result
\* keeps its version, and every other object keeps its version: no step
\* takes a V2 field to V1.
C25_VersionStateMachine ==
    [][/\ \A o \in ObjIds :
             (objs[o] # None /\ objs'[o] # None /\ o # VersionOutput(last'.op)) =>
                 objs'[o].version = objs[o].version
       /\ (last'.op \in {"set_xlim", "set_ylim", "set_clim", "reset_view", "copy"}
              /\ objs'[1] # None) =>
             objs'[1].version = objs[1].version
       /\ (last'.op = "supersample" /\ err' = "") => objs'[2].version = objs[1].version
       /\ (last'.op = "convert" /\ err' = "") =>
             (objs'[2].version = V2 /\ objs'[1].version = objs[1].version)
       /\ (last'.op = "convert_again" /\ err' = "") => objs'[3].version = V2
       /\ (last'.op = "average_data" /\ err' = "" /\ last'.arg > 0
              /\ \A k \in 1..last'.arg :
                    objs[last'.flows[k]].version = objs[last'.flows[1]].version) =>
             objs'[3].version = objs[last'.flows[1]].version
       /\ (last'.op = "read_flow" /\ last.op = "write_flow" /\ err = "" /\ err' = "") =>
             objs'[2].version = objs[1].version
       /\ last'.op = "adopt" => objs'[1].version = objs[last'.arg].version]_vars

\* a GMX_FLOW_1 field on a finer grid returned by supersample
C25_Witness ==
    /\ last.op = "supersample"
    /\ err = ""
    /\ result = 2
    /\ objs[2] # None
    /\ objs[2].version = V1
    /\ objs[2].shape # objs[1].shape

\* C28: in every GmxFlow that construction, read_flow, copy, average_data or
\* convert_gmx_flow_1_to_2 gives, the units and the description of M agree
\* with the version: 'u/nm^3' and 'Mass density' exactly for GMX_FLOW_2, 'u'
\* and 'Total mass' exactly for GMX_FLOW_1.
C28_UnitsAgreeWithVersion ==
    \A o \in ObjIds :
        objs[o] # None =>
            /\ objs[o].units = "u/nm^3" <=> objs[o].version = V2
            /\ objs[o].descriptions = "Mass density" <=> objs[o].version = V2
            /\ objs[o].units = "u" <=> objs[o].version = V1
            /\ objs[o].descriptions = "Total mass" <=> objs[o].version = V1

\* ---------------------------------------------------------------------------
\* Filters in any order: set_xlim, set_ylim and set_clim('M'), each at most
\* once, on one constructed grid.  The calls made so far are on record in
\* last.calls, with their limits.
\* ---------------------------------------------------------------------------

\* the calls on record
Calls == IF last.op = "init" THEN <<>> ELSE last.calls

\* one recorded call applied to object 1
apply_call(H, c) ==
    IF c.op = "set_xlim" THEN set_xlim(H, 1, c.lo, c.hi)
    ELSE IF c.op = "set_ylim" THEN set_ylim(H, 1, c.lo, c.hi)
    ELSE set_clim(H, 1, c.lo, c.hi, "M")

\* a sequence of calls applied in order; a call that raises ends the sequence
RECURSIVE apply_calls(_, _)
apply_calls(H, cs) ==
    IF cs = <<>> \/ H.err # "" THEN H
    ELSE apply_calls(apply_call(Heap(H.objs, H.arrs, ""), Head(cs)), Tail(cs))

\* the step of one filter call with its limits put on record
FilterCall(op, label) ==
    /\ err = ""
    /\ \A i \in DOMAIN Calls : Calls[i].op # op
    /\ \E lo \in Limits(label), hi \in Limits(label) :
          \E c \in {[op |-> op, lo |-> lo, hi |-> hi]} :
             \E H \in {apply_call(Heap(objs, arrs, ""), c)} :
                /\ objs' = H.objs
                /\ arrs' = H.arrs
                /\ err' = H.err
                /\ last' = [op |-> op, path |-> "calls", arg |-> Len(Calls) + 1,
                            calls |-> Append(Calls, c)]
                /\ UNCHANGED <<files, result, made>>

\* the longest side, in bins, of the grids the filters are composed on
MaxSide == 2

\* grid shapes (nx, ny) of these grids
CommuteShapes == {sh \in LimShapes : sh[1] <= MaxSide /\ sh[2] <= MaxSide}

InitCommute ==
    /\ \E shape \in CommuteShapes, geom \in Geoms :
          \E vals \in [1..Prod(shape) -> LimSamples] :
             Constructed(Construct(Full, shape, geom, V2, vals))
    /\ files = [p \in Paths |-> NoFile]

NextCommute ==
    \/ FilterCall("set_xlim", "X")
    \/ FilterCall("set_ylim", "Y")
    \/ FilterCall("set_clim", "M")

SpecCommute == InitCommute /\ [][NextCommute]_vars

\* the live view of object 1: the bins in their order, the shape of the data
\* array, the shape attribute and box_size
LiveView(H) ==
    [data |-> H.arrs[H.objs[1].data],
     shape |-> H.objs[1].shape,
     box_size |-> H.objs[1].box_size]

\* the orders in which the calls on record can be made
CallOrders(cs) ==
    {s \in [DOMAIN cs -> Range(cs)] : Range(s) = Range(cs)}

\* the label a call filters on
FilterLabel(c) ==
    IF c.op = "set_xlim" THEN "X" ELSE IF c.op = "set_ylim" THEN "Y" ELSE "M"

\* the bins of the full grid that satisfy the limits of every call
Survivors(cs) ==
    {b \in Range(made.array.cells) :
        \A i \in DOMAIN cs :
            /\ cs[i].lo.inf \/ b[FilterLabel(cs[i])] >= cs[i].lo.v
            /\ cs[i].hi.inf \/ b[FilterLabel(cs[i])] <= cs[i].hi.v}

\* C29: when set_xlim, set_ylim and set_clim have been applied in some order
\* and at least one bin survives, the same calls in any other order from the
\* full grid give the same live view (bins in the same order, shape of the
\* data, shape attribute, box_size) without an error, and the view holds
\* exactly the bins of the full grid that satisfy all the limits, each once.
C29_FiltersCommute ==
    (Calls # <<>> /\ err = "" /\ Len(arrs[objs[1].data].cells) > 0) =>
        /\ \A s \in CallOrders(Calls) :
              \A H \in {apply_calls(reset_view(Heap(objs, arrs, ""), 1), s)} :
                 /\ H.err = ""
                 /\ LiveView(H) = LiveView(Heap(objs, arrs, ""))
        /\ Range(arrs[objs[1].data].cells) = Survivors(Calls)
        /\ Len(arrs[objs[1].data].cells) = Cardinality(Survivors(Calls))

\* C29 witness: on a grid of two rows and two columns set_xlim, then set_clim,
\* then set_ylim were applied, the limits of each leave out bins of the full
\* grid, and one bin is left
C29_Witness ==
    /\ Len(Calls) = 3
    /\ err = ""
    /\ made.shape = <<2, 2>>
    /\ Calls[1].op = "set_xlim"
    /\ Calls[2].op = "set_clim"
    /\ Calls[3].op = "set_ylim"
    /\ Len(arrs[objs[1].data].cells) = 1
    /\ Cardinality(Survivors(<<Calls[1]>>)) = 2
    /\ Cardinality(Survivors(<<Calls[2]>>)) \in 1..3
    /\ Cardinality(Survivors(<<Calls[3]>>)) = 2

\* ---------------------------------------------------------------------------
\* A narrowed view written and read back: set_xlim and set_ylim on a
\* constructed grid, then write_flow of the flow field and read_flow of the
\* file.
\* ---------------------------------------------------------------------------

NextNarrowed ==
    \/ ~ files["flow.dat"].exists /\ err = "" /\ SetXlim
    \/ ~ files["flow.dat"].exists /\ err = "" /\ SetYlim
    \/ ~ files["flow.dat"].exists /\ err = "" /\ WriteFlow("flow.dat")
    \/ files["flow.dat"].exists /\ ReadFlow("flow.dat")

SpecNarrowed == InitView /\ [][NextNarrowed]_vars

\* the live view of object 1 is narrowed to a rectangular sub-grid
NarrowedToRectangle ==
    /\ objs[1].data # objs[1].backup
    /\ Len(arrs[objs[1].data].shape) = 2
    /\ Len(arrs[objs[1].data].cells) < Len(arrs[objs[1].backup].cells)

\* C30: when the live view was narrowed by set_xlim or set_ylim to a
\* rectangular sub-grid, write_flow followed by read_flow gives a field in
\* which every written bin (M # 0) has the bin-centre coordinates X, Y and the
\* field values N, T, M, U, V (at the float32 precision of the file) that the
\* bin had in the narrowed view.
C30_NarrowedRoundTrip ==
    (last.op = "read_flow" /\ Full \subseteq objs[1].fields /\ NarrowedToRectangle) =>
        /\ err = ""
        /\ result = 2
        /\ Len(arrs[objs[2].data].cells) = Len(arrs[objs[1].data].cells)
        /\ \A i \in DOMAIN arrs[objs[1].data].cells :
              arrs[objs[1].data].cells[i]["M"] # 0 =>
                  /\ \A l \in {"X", "Y"} :
                        arrs[objs[2].data].cells[i][l] = arrs[objs[1].data].cells[i][l]
                  /\ \A l \in {"N", "T", "M", "U", "V"} :
                        arrs[objs[2].data].cells[i][l] =
                            F32(arrs[objs[1].data].cells[i][l])

====
